---- MODULE Spec2Model ----
(***************************************************************************)
(* Verification model of substack_scraper: the sliding-window RateLimiter, *)
(* the BrowserManager lifecycle, the SearchScraper orchestration, the      *)
(* ScrollHandler loop, the DataExtractor fallback chain and the            *)
(* PostFetcher enrichment.                                                 *)
(* Time is a discrete clock; one tick is one unit of datetime.utcnow().    *)
(* Coroutines are callers with a program position; a step of a caller is   *)
(* the code between two suspension points of the asyncio event loop.       *)
(***************************************************************************)
EXTENDS Integers, Sequences, FiniteSets, TLC

\* ------------------------------------------------------------------ bounds
NumCallers  == 2   \* concurrent coroutines using one RateLimiter
MaxCalls    == 4   \* limiter calls (acquire, try_acquire, reset) issued in a run
MaxTime     == 4   \* last clock value
MaxCapacity == 2   \* largest configured max_requests
MaxWindow   == 2   \* largest configured window
NumUsers    == 2   \* concurrent coroutines using one BrowserManager
MaxBrowserCalls == 3   \* BrowserManager calls (start, stop, new_context, new_page) issued in a run
NumKeywords == 2   \* keywords given to search_multiple
MaxRaw      == 2   \* most raw records one search gathers
MaxTimeout  == 2   \* largest configured timeout_ms, counted in scroll delays
MaxNoChange == 2   \* largest configured max_no_change_iterations
MaxHeight   == 1   \* largest document.body.scrollHeight
MaxCount    == 2   \* largest number of result elements on the page
MaxTarget   == 3   \* largest target_count
MaxScrolls  == 4   \* scrolls one scroll_to_load_results call is followed for
MaxPosts    == 2   \* most records (or result cards) one page source holds
MaxId       == 2   \* largest post id
MaxConcurrent == 2 \* largest max_concurrent given to enrich_posts
MaxEnrich   == 3   \* most posts given to enrich_posts
NumResponses == 2  \* responses that arrive at the search page

Callers == 1..NumCallers
Users == 1..NumUsers
Keywords == 1..NumKeywords

VARIABLES
  \* RateLimiter
  max_requests,   \* self.max_requests
  window,         \* self.window
  requests,       \* self.requests, the deque of timestamps (left end first)
  rl_locked,      \* self._lock is held
  rl_waiters,     \* callers queued on self._lock, first in first out
  now,            \* the clock datetime.utcnow() reads
  pc,             \* position of each limiter caller
  op,             \* the limiter method each caller is in
  wakeAt,         \* deadline of the caller's asyncio.sleep
  ret,            \* outcome of the caller's last call
  calls,          \* number of limiter calls issued so far
  tryLog,         \* the last completed try_acquire: queue before, clock, result, queue after
  afterReset,     \* reset() ran and no limiter call has been issued since
  firstAfter,     \* the caller (if any) whose pending acquire was the first call after a reset
  \* BrowserManager; a handle is a positive number, 0 is None
  bm_browser,     \* self._browser
  bm_playwright,  \* self._playwright
  bm_locked,      \* self._lock is held
  bm_waiters,     \* users queued on self._lock, first in first out
  liveBrowsers,   \* handles of the browser processes that are running
  liveDrivers,    \* handles of the Playwright drivers that are running
  handles,        \* number of handles created so far
  launches,       \* browsers launched since the last stop tore one down
  launchLog,      \* outcome of every chromium.launch call, in order
  bpc,            \* position of each BrowserManager user
  bop,            \* the BrowserManager method each user is in
  uBrowser,       \* the browser handle the user's new_context call was made on
  uCtx,           \* the user's context: "none", "open" or "closed"
  uPage,          \* the user's page: "none", "open" or "closed"
  uExit,          \* how the user's last call ended
  bcalls,         \* number of BrowserManager calls issued so far
  \* SearchScraper.search_multiple, run by limiter caller 1 and browser user 1
  smPc,           \* position of the search_multiple coroutine
  smIdx,          \* index of the keyword the loop is at
  smLimit,        \* the limit argument
  smRaw,          \* number of raw records the current search has gathered
  smError,        \* the exception that left the current search, "none" if none
  smResults,      \* results, the list search_multiple builds
  smLogStart,     \* length of launchLog when the current search was called
  smFetch,        \* fetch_post_content calls the enrichment has still to make
  \* ScrollHandler.scroll_to_load_results and the page it scrolls
  timeout_ms,                \* self.timeout_ms, counted in scroll delays
  max_no_change_iterations,  \* self.max_no_change_iterations
  pgHeight,       \* document.body.scrollHeight of the page
  pgCount,        \* what the count probe finds on the page
  target_count,   \* the target_count argument
  last_height,    \* local last_height
  last_count,     \* local last_count
  no_change_iterations,      \* local no_change_iterations
  scroll_count,   \* local scroll_count
  new_height,     \* local new_height
  scPc,           \* position of the scroll_to_load_results coroutine
  scRet,          \* the count scroll_to_load_results returned
  scElapsed,      \* scroll delays the call has slept through
  scConstant,     \* the page has not changed since the call began
  scLastProbe,    \* the last value get_current_count returned
  scMonotone,     \* get_current_count never returned less than the time before
  scReached,      \* get_current_count has returned a value >= target_count
  scReachedAt,    \* scroll_count when it first did
  \* DataExtractor.extract_posts and the typed conversion that follows it
  dePc,           \* position of the extract_posts coroutine
  deKeyword,      \* the keyword argument
  dePosts,        \* local posts; the returned list once dePc = "done"
  deLog,          \* the strategies invoked so far, in order, with their outcome
  deTyped,        \* ids of the Posts of the SearchResult built from the list
  deCards,        \* the result cards the DOM strategy went through
  \* PostFetcher.enrich_posts and its fetch_one tasks, one per post
  enPc,           \* position of the enrich_posts coroutine
  max_concurrent, \* the max_concurrent argument
  enInput,        \* the posts argument as it was when the call began
  enPosts,        \* the posts argument, whose dictionaries fetch_one updates
  enValue,        \* free slots of the semaphore
  taskPc,         \* position of each fetch_one task
  enOutcome,      \* how each task's fetch ended
  enOut,          \* what each task returned to gather
  enDoneOrder,    \* the tasks in the order they completed
  enResult,       \* result, the list enrich_posts returns
  \* the records of one SearchScraper.search call
  plPc,           \* position of search on its records
  captured_posts, \* the list the response handlers append to
  rsp,            \* each response's handle_response: not begun, reading, over
  arrivals,       \* the responses in the order they arrived at the page
  raw_posts,      \* local raw_posts
  plAlias,        \* raw_posts and captured_posts are one list object
  plExtracted,    \* extract_posts was awaited
  plLimit,        \* the limit argument
  plFound,        \* how many records raw_posts had before the truncation
  plPosts,        \* posts of the SearchResult that search returns
  \* one construction SubstackPost(**raw_post)
  poRaw,          \* the raw record
  poPost          \* the Post, or the failed validation

rlVars == <<max_requests, window, requests, rl_locked, rl_waiters, now, pc, op,
            wakeAt, ret, calls, tryLog, afterReset, firstAfter>>

bmVars == <<bm_browser, bm_playwright, bm_locked, bm_waiters, liveBrowsers,
            liveDrivers, handles, launches, launchLog, bpc, bop, uBrowser, uCtx,
            uPage, uExit, bcalls>>

smVars == <<smPc, smIdx, smLimit, smRaw, smError, smResults, smLogStart,
            smFetch>>

scVars == <<timeout_ms, max_no_change_iterations, pgHeight,
            pgCount, target_count, last_height, last_count,
            no_change_iterations, scroll_count, new_height, scPc, scRet,
            scElapsed, scConstant, scLastProbe, scMonotone, scReached,
            scReachedAt>>

deVars == <<dePc, deKeyword, dePosts, deLog, deTyped, deCards>>

enVars == <<enPc, max_concurrent, enInput, enPosts, enValue, taskPc, enOutcome,
            enOut, enDoneOrder, enResult>>

plVars == <<plPc, captured_posts, rsp, arrivals, raw_posts, plAlias, plExtracted,
            plLimit, plFound, plPosts>>

poVars == <<poRaw, poPost>>

auxVars == <<scVars, deVars, enVars, plVars, poVars>>

vars == <<rlVars, bmVars, smVars, auxVars>>

\* ------------------------------------------------------------ RateLimiter

\* __init__: an empty deque, a free lock.
RLInit ==
  /\ max_requests \in 0..MaxCapacity
  /\ window \in 1..MaxWindow
  /\ requests = <<>>
  /\ rl_locked = FALSE
  /\ rl_waiters = <<>>
  /\ now = 0
  /\ pc = [p \in Callers |-> "idle"]
  /\ op = [p \in Callers |-> "none"]
  /\ wakeAt = [p \in Callers |-> 0]
  /\ ret = [p \in Callers |-> "none"]
  /\ calls = 0
  /\ tryLog = <<>>
  /\ afterReset = FALSE
  /\ firstAfter = {}

\* while self.requests and self.requests[0] < now - self.window: popleft()
RECURSIVE Evict(_, _)
Evict(q, t) ==
  IF q # <<>> /\ q[1] < t - window THEN Evict(Tail(q), t) ELSE q

\* asyncio.Lock.acquire takes the lock without suspending only when it is
\* free and nobody is queued on it.
LockFree == ~rl_locked /\ rl_waiters = <<>>

\* Leaving `async with self._lock`: the lock passes to the first queued
\* caller, which becomes runnable; caller p goes back to its own code.
LockRelease(p) ==
  /\ rl_locked' = (rl_waiters # <<>>)
  /\ rl_waiters' = IF rl_waiters = <<>> THEN <<>> ELSE Tail(rl_waiters)
  /\ pc' = [q \in Callers |->
              IF q = p THEN "idle"
              ELSE IF rl_waiters # <<>> /\ q = Head(rl_waiters) THEN "lock_granted"
              ELSE pc[q]]

\* Entering `async with self._lock` when the lock is not free: suspend.
LockQueue(p, method) ==
  /\ pc' = [pc EXCEPT ![p] = "lock_wait"]
  /\ op' = [op EXCEPT ![p] = method]
  /\ rl_waiters' = Append(rl_waiters, p)
  /\ UNCHANGED <<requests, rl_locked, now, wakeAt, ret, tryLog>>

\* Book-keeping of a call being issued by p.
Issue(p, method) ==
  /\ pc[p] = "idle"
  /\ calls < MaxCalls
  /\ calls' = calls + 1
  /\ afterReset' = FALSE
  /\ firstAfter' = IF method = "acquire" /\ afterReset THEN {p} ELSE firstAfter \ {p}

\* if len(self.requests) >= self.max_requests
Saturated(q) == Len(q) >= max_requests

\* wait_seconds = (oldest + window - now); the sleep is taken only if > 0
MustSleep(q, t) == q[1] + window - t > 0

\* The body of acquire up to its first suspension or its return (lines 38-64).
AcquireBody(p) ==
  LET ev == Evict(requests, now) IN
  IF Saturated(ev)
  THEN IF ev = <<>>
       THEN \* oldest = self.requests[0] on an empty deque: IndexError
            /\ requests' = ev
            /\ ret' = [ret EXCEPT ![p] = "IndexError"]
            /\ op' = [op EXCEPT ![p] = "none"]
            /\ LockRelease(p)
            /\ UNCHANGED <<now, wakeAt, tryLog>>
       ELSE IF MustSleep(ev, now)
            THEN \* await asyncio.sleep(wait_seconds), the lock still held
                 /\ requests' = ev
                 /\ pc' = [pc EXCEPT ![p] = "sleeping"]
                 /\ op' = [op EXCEPT ![p] = "acquire"]
                 /\ wakeAt' = [wakeAt EXCEPT ![p] = ev[1] + window]
                 /\ rl_locked' = TRUE
                 /\ UNCHANGED <<rl_waiters, now, ret, tryLog>>
            ELSE \* wait_seconds <= 0: no wait, fall through to the append
                 /\ \E t2 \in {now, now + 1} :
                      /\ t2 <= MaxTime
                      /\ now' = t2
                      /\ requests' = Append(ev, t2)
                 /\ ret' = [ret EXCEPT ![p] = "acquired"]
                 /\ op' = [op EXCEPT ![p] = "none"]
                 /\ LockRelease(p)
                 /\ UNCHANGED <<wakeAt, tryLog>>
  ELSE \* self.requests.append(datetime.utcnow()): a second reading of the clock
       /\ \E t2 \in {now, now + 1} :
            /\ t2 <= MaxTime
            /\ now' = t2
            /\ requests' = Append(ev, t2)
       /\ ret' = [ret EXCEPT ![p] = "acquired"]
       /\ op' = [op EXCEPT ![p] = "none"]
       /\ LockRelease(p)
       /\ UNCHANGED <<wakeAt, tryLog>>

\* acquire() is called.
AcquireCall(p) ==
  /\ Issue(p, "acquire")
  /\ IF LockFree THEN AcquireBody(p) ELSE LockQueue(p, "acquire")
  /\ UNCHANGED <<max_requests, window>>

\* A queued acquire() is handed the lock and runs.
AcquireResume(p) ==
  /\ pc[p] = "lock_granted"
  /\ op[p] = "acquire"
  /\ AcquireBody(p)
  /\ UNCHANGED <<max_requests, window, calls, afterReset>>
  /\ firstAfter' = IF pc'[p] = "idle" THEN firstAfter \ {p} ELSE firstAfter

\* asyncio.sleep returns (lines 59-64): drop the oldest entry if there is
\* one, record the request, leave the critical section.
AcquireWake(p) ==
  /\ pc[p] = "sleeping"
  /\ now >= wakeAt[p]
  /\ requests' = Append(IF requests # <<>> THEN Tail(requests) ELSE requests, now)
  /\ ret' = [ret EXCEPT ![p] = "acquired"]
  /\ op' = [op EXCEPT ![p] = "none"]
  /\ wakeAt' = [wakeAt EXCEPT ![p] = 0]
  /\ LockRelease(p)
  /\ firstAfter' = firstAfter \ {p}
  /\ UNCHANGED <<max_requests, window, now, calls, tryLog, afterReset>>

\* try_acquire with the capacity test off by one (<= for <).
TryAcquireBody_OffByOne(p) ==
  LET ev == Evict(requests, now)
      ok == Len(ev) <= max_requests
      post == IF ok THEN Append(ev, now) ELSE ev
  IN /\ requests' = post
     /\ ret' = [ret EXCEPT ![p] = IF ok THEN "true" ELSE "false"]
     /\ op' = [op EXCEPT ![p] = "none"]
     /\ tryLog' = <<[pre |-> requests, at |-> now, result |-> ok, post |-> post]>>
     /\ LockRelease(p)
     /\ UNCHANGED <<now, wakeAt>>

\* The body of try_acquire (lines 73-84); it has no suspension point.
TryAcquireBody(p) ==
  LET ev == Evict(requests, now)
      ok == Len(ev) < max_requests
      post == IF ok THEN Append(ev, now) ELSE ev
  IN /\ requests' = post
     /\ ret' = [ret EXCEPT ![p] = IF ok THEN "true" ELSE "false"]
     /\ op' = [op EXCEPT ![p] = "none"]
     /\ tryLog' = <<[pre |-> requests, at |-> now, result |-> ok, post |-> post]>>
     /\ LockRelease(p)
     /\ UNCHANGED <<now, wakeAt>>

\* try_acquire() is called.
TryAcquireCall(p) ==
  /\ Issue(p, "try_acquire")
  /\ IF LockFree THEN TryAcquireBody(p) ELSE LockQueue(p, "try_acquire")
  /\ UNCHANGED <<max_requests, window>>

\* A queued try_acquire() is handed the lock and runs.
TryAcquireResume(p) ==
  /\ pc[p] = "lock_granted"
  /\ op[p] = "try_acquire"
  /\ TryAcquireBody(p)
  /\ UNCHANGED <<max_requests, window, calls, afterReset, firstAfter>>

\* reset(): self.requests.clear(), a plain method that takes no lock.
Reset ==
  /\ calls < MaxCalls
  /\ calls' = calls + 1
  /\ requests' = <<>>
  /\ afterReset' = TRUE
  /\ firstAfter' = {}
  /\ UNCHANGED <<max_requests, window, rl_locked, rl_waiters, now, pc, op,
                 wakeAt, ret, tryLog>>

\* The clock advances.
Tick ==
  /\ now < MaxTime
  /\ now' = now + 1
  /\ UNCHANGED <<max_requests, window, requests, rl_locked, rl_waiters, pc, op,
                 wakeAt, ret, calls, tryLog, afterReset, firstAfter>>

\* --------------------------------------------------------- BrowserManager

\* __init__: no driver, no browser, a free lock.
BMInit ==
  /\ bm_browser = 0
  /\ bm_playwright = 0
  /\ bm_locked = FALSE
  /\ bm_waiters = <<>>
  /\ liveBrowsers = {}
  /\ liveDrivers = {}
  /\ handles = 0
  /\ launches = 0
  /\ launchLog = <<>>
  /\ bpc = [u \in Users |-> "idle"]
  /\ bop = [u \in Users |-> "none"]
  /\ uBrowser = [u \in Users |-> 0]
  /\ uCtx = [u \in Users |-> "none"]
  /\ uPage = [u \in Users |-> "none"]
  /\ uExit = [u \in Users |-> "none"]
  /\ bcalls = 0

BLockFree == ~bm_locked /\ bm_waiters = <<>>

\* Leaving `async with self._lock`: the lock passes to the first queued user;
\* user u goes on at position `after`.
BLockRelease(u, after) ==
  /\ bm_locked' = (bm_waiters # <<>>)
  /\ bm_waiters' = IF bm_waiters = <<>> THEN <<>> ELSE Tail(bm_waiters)
  /\ bpc' = [v \in Users |->
               IF v = u THEN after
               ELSE IF bm_waiters # <<>> /\ v = Head(bm_waiters) THEN "lock_granted"
               ELSE bpc[v]]

\* Entering `async with self._lock` when the lock is not free: suspend.
BLockQueue(u) ==
  /\ bpc' = [bpc EXCEPT ![u] = "lock_wait"]
  /\ bm_waiters' = Append(bm_waiters, u)
  /\ uExit' = [uExit EXCEPT ![u] = "none"]
  /\ uBrowser' = [uBrowser EXCEPT ![u] = 0]
  /\ UNCHANGED <<bm_browser, bm_playwright, bm_locked, liveBrowsers, liveDrivers,
                 handles, launches, launchLog>>

\* Book-keeping of a call being issued by u.
BIssue(u, method) ==
  /\ bpc[u] = "idle"
  /\ bcalls < MaxBrowserCalls
  /\ bcalls' = bcalls + 1
  /\ bop' = [bop EXCEPT ![u] = method]

\* start() returns to its caller with browser b in self._browser: a direct
\* start() call is over; new_context() goes on to self._browser.new_context(...)
\* (line 74) without a suspension in between.
StartReturn(u, method, b) ==
  IF method = "start"
  THEN /\ BLockRelease(u, "idle")
       /\ uExit' = [uExit EXCEPT ![u] = "started"]
       /\ uBrowser' = [uBrowser EXCEPT ![u] = 0]
  ELSE /\ BLockRelease(u, "ctx_creating")
       /\ uExit' = [uExit EXCEPT ![u] = "none"]
       /\ uBrowser' = [uBrowser EXCEPT ![u] = b]

\* start() without its check of self._browser.
AlreadyStarted_Unchecked == FALSE

\* if self._browser is not None: return  (line 36)
AlreadyStarted == bm_browser # 0

\* The body of start() inside the lock, up to its first suspension (lines 36-40).
StartBody(u, method) ==
  IF AlreadyStarted
  THEN /\ StartReturn(u, method, bm_browser)
       /\ UNCHANGED <<bm_browser, bm_playwright, liveBrowsers, liveDrivers,
                      handles, launches, launchLog>>
  ELSE \* await async_playwright().start()
       /\ bpc' = [bpc EXCEPT ![u] = "pw_starting"]
       /\ bm_locked' = TRUE
       /\ uExit' = [uExit EXCEPT ![u] = "none"]
       /\ uBrowser' = [uBrowser EXCEPT ![u] = 0]
       /\ UNCHANGED <<bm_browser, bm_playwright, bm_waiters, liveBrowsers,
                      liveDrivers, handles, launches, launchLog>>

\* start() is called.
StartCall(u) ==
  /\ BIssue(u, "start")
  /\ IF BLockFree THEN StartBody(u, "start") ELSE BLockQueue(u)
  /\ UNCHANGED <<uCtx, uPage>>

\* A queued start() (called directly or from new_context) is handed the lock.
StartResume(u) ==
  /\ bpc[u] = "lock_granted"
  /\ bop[u] \in {"start", "new_context", "new_page"}
  /\ StartBody(u, bop[u])
  /\ UNCHANGED <<bop, bcalls, uCtx, uPage>>

\* An exception leaves start(): the lock is released on the way out and the
\* exception leaves the method the user called.
StartRaise(u, why) ==
  /\ BLockRelease(u, "idle")
  /\ uExit' = [uExit EXCEPT ![u] = why]

\* async_playwright().start() returns a driver, or raises (line 40).
StartDriverDone(u) ==
  /\ bpc[u] = "pw_starting"
  /\ \/ /\ handles' = handles + 1
        /\ bm_playwright' = handles + 1
        /\ liveDrivers' = liveDrivers \cup {handles + 1}
        /\ bpc' = [bpc EXCEPT ![u] = "launching"]
        /\ UNCHANGED <<bm_locked, bm_waiters, uExit>>
     \/ /\ StartRaise(u, "driver_failed")
        /\ UNCHANGED <<handles, bm_playwright, liveDrivers>>
  /\ UNCHANGED <<bm_browser, liveBrowsers, launches, launchLog, bop, uBrowser,
                 uCtx, uPage, bcalls>>

\* chromium.launch(...) returns a browser (lines 41-49): start() returns.
LaunchOk(u) ==
  /\ handles' = handles + 1
  /\ bm_browser' = handles + 1
  /\ liveBrowsers' = liveBrowsers \cup {handles + 1}
  /\ launches' = launches + 1
  /\ launchLog' = Append(launchLog, "ok")
  /\ StartReturn(u, bop[u], handles + 1)

\* start() with a retry loop around the launch: a failed launch is tried again.
LaunchFailed_Retry(u) ==
  /\ launchLog' = Append(launchLog, "failed")
  /\ UNCHANGED <<handles, bm_browser, liveBrowsers, launches, uBrowser,
                 bpc, bm_locked, bm_waiters, uExit>>

\* chromium.launch(...) raises: nothing catches it in start(), the lock is
\* released and the exception leaves start() and its caller.
LaunchFailed(u) ==
  /\ launchLog' = Append(launchLog, "failed")
  /\ StartRaise(u, "launch_failed")
  /\ UNCHANGED <<handles, bm_browser, liveBrowsers, launches, uBrowser>>

\* The await of chromium.launch(...) ends.
Launched(u) ==
  /\ bpc[u] = "launching"
  /\ (LaunchOk(u) \/ LaunchFailed(u))
  /\ UNCHANGED <<bm_playwright, liveDrivers, bop, uCtx, uPage, bcalls>>

\* The body of stop() inside the lock, up to its first suspension (lines 54-60).
\* self._browser.close() tears the browser process down, and with it every
\* context and page opened on it.
StopBody(u) ==
  IF bm_browser # 0
  THEN /\ bpc' = [bpc EXCEPT ![u] = "closing"]
       /\ bm_locked' = TRUE
       /\ liveBrowsers' = liveBrowsers \ {bm_browser}
       /\ uCtx' = [v \in Users |->
                    IF uBrowser[v] = bm_browser /\ uCtx[v] = "open" THEN "closed" ELSE uCtx[v]]
       /\ uPage' = [v \in Users |->
                     IF uBrowser[v] = bm_browser /\ uPage[v] = "open" THEN "closed" ELSE uPage[v]]
       /\ UNCHANGED <<bm_browser, bm_playwright, bm_waiters, liveDrivers, launches, uExit>>
  ELSE IF bm_playwright # 0
       THEN /\ bpc' = [bpc EXCEPT ![u] = "driver_stopping"]
            /\ bm_locked' = TRUE
            /\ liveDrivers' = liveDrivers \ {bm_playwright}
            /\ UNCHANGED <<bm_browser, bm_playwright, bm_waiters, liveBrowsers,
                           launches, uCtx, uPage, uExit>>
       ELSE /\ BLockRelease(u, "idle")
            /\ uExit' = [uExit EXCEPT ![u] = "stopped"]
            /\ UNCHANGED <<bm_browser, bm_playwright, liveBrowsers, liveDrivers,
                           launches, uCtx, uPage>>

\* stop() is called.
StopCall(u) ==
  /\ BIssue(u, "stop")
  /\ IF BLockFree
     THEN StopBody(u) /\ UNCHANGED <<handles, launchLog, uBrowser>>
     ELSE BLockQueue(u) /\ UNCHANGED <<uCtx, uPage>>

\* A queued stop() is handed the lock.
StopResume(u) ==
  /\ bpc[u] = "lock_granted"
  /\ bop[u] = "stop"
  /\ StopBody(u)
  /\ UNCHANGED <<handles, launchLog, uBrowser, bop, bcalls>>

\* self._browser.close() has returned: self._browser = None, then the driver
\* is stopped if there is one (lines 57-60).
StopClosed(u) ==
  /\ bpc[u] = "closing"
  /\ bm_browser' = 0
  /\ launches' = 0
  /\ IF bm_playwright # 0
     THEN /\ bpc' = [bpc EXCEPT ![u] = "driver_stopping"]
          /\ liveDrivers' = liveDrivers \ {bm_playwright}
          /\ UNCHANGED <<bm_locked, bm_waiters, uExit>>
     ELSE /\ BLockRelease(u, "idle")
          /\ uExit' = [uExit EXCEPT ![u] = "stopped"]
          /\ UNCHANGED liveDrivers
  /\ UNCHANGED <<bm_playwright, liveBrowsers, handles, launchLog, bop, uBrowser,
                 uCtx, uPage, bcalls>>

\* self._playwright.stop() has returned: self._playwright = None (lines 61-62).
StopDriverDone(u) ==
  /\ bpc[u] = "driver_stopping"
  /\ bm_playwright' = 0
  /\ BLockRelease(u, "idle")
  /\ uExit' = [uExit EXCEPT ![u] = "stopped"]
  /\ UNCHANGED <<bm_browser, liveBrowsers, liveDrivers, handles, launches,
                 launchLog, bop, uBrowser, uCtx, uPage, bcalls>>

\* new_page with the page creation and the route installation outside any
\* try / finally: an exception raised there skips the closing.
Unwind_SetupUnprotected(method, at) ==
  IF at = "in_block"
  THEN IF method = "new_page" THEN "page_closing" ELSE "ctx_closing"
  ELSE "idle"

\* Where control goes when an exception is raised at position `at` of
\* new_context / new_page: new_context's `finally` (lines 81-84) closes the
\* context for everything raised after the context exists; new_page's own
\* `finally` (lines 102-105) first closes the page for an exception raised in
\* the block it yields to.
Unwind(method, at) ==
  IF at = "in_block" /\ method = "new_page" THEN "page_closing" ELSE "ctx_closing"

\* new_context() or new_page() is entered (lines 71-79 / 93): the browser is
\* started first if there is none; then self._browser.new_context(...) is called.
ScopeCall(u, method) ==
  /\ BIssue(u, method)
  /\ uCtx' = [uCtx EXCEPT ![u] = "none"]
  /\ uPage' = [uPage EXCEPT ![u] = "none"]
  /\ IF bm_browser = 0
     THEN IF BLockFree THEN StartBody(u, method) ELSE BLockQueue(u)
     ELSE /\ bpc' = [bpc EXCEPT ![u] = "ctx_creating"]
          /\ uBrowser' = [uBrowser EXCEPT ![u] = bm_browser]
          /\ uExit' = [uExit EXCEPT ![u] = "none"]
          /\ UNCHANGED <<bm_browser, bm_playwright, bm_locked, bm_waiters,
                         liveBrowsers, liveDrivers, handles, launches, launchLog>>

NewContextCall(u) == ScopeCall(u, "new_context")
NewPageCall(u) == ScopeCall(u, "new_page")

\* self._browser.new_context(...) returns a context, or raises; on a browser
\* that has been closed it can only raise (lines 74-79).
CtxCreated(u) ==
  /\ bpc[u] = "ctx_creating"
  /\ \/ /\ uBrowser[u] \in liveBrowsers
        /\ uCtx' = [uCtx EXCEPT ![u] = "open"]
        /\ bpc' = [bpc EXCEPT ![u] = IF bop[u] = "new_page" THEN "page_creating" ELSE "in_block"]
        /\ UNCHANGED uExit
     \/ /\ bpc' = [bpc EXCEPT ![u] = "idle"]
        /\ uExit' = [uExit EXCEPT ![u] = "ctx_failed"]
        /\ UNCHANGED uCtx
  /\ UNCHANGED <<bm_browser, bm_playwright, bm_locked, bm_waiters, liveBrowsers,
                 liveDrivers, handles, launches, launchLog, bop, uBrowser, uPage, bcalls>>

\* context.new_page() returns a page, or raises (line 94).
PageCreated(u) ==
  /\ bpc[u] = "page_creating"
  /\ \/ /\ uCtx[u] = "open"
        /\ uPage' = [uPage EXCEPT ![u] = "open"]
        /\ bpc' = [bpc EXCEPT ![u] = "routing"]
        /\ UNCHANGED uExit
     \/ /\ bpc' = [bpc EXCEPT ![u] = Unwind(bop[u], "page_creating")]
        /\ uExit' = [uExit EXCEPT ![u] = "page_failed"]
        /\ UNCHANGED uPage
  /\ UNCHANGED <<bm_browser, bm_playwright, bm_locked, bm_waiters, liveBrowsers,
                 liveDrivers, handles, launches, launchLog, bop, uBrowser, uCtx, bcalls>>

\* page.route(...) returns, or raises (lines 97-100).
RouteDone(u) ==
  /\ bpc[u] = "routing"
  /\ \/ /\ uPage[u] = "open"
        /\ bpc' = [bpc EXCEPT ![u] = "in_block"]
        /\ UNCHANGED uExit
     \/ /\ bpc' = [bpc EXCEPT ![u] = Unwind(bop[u], "routing")]
        /\ uExit' = [uExit EXCEPT ![u] = "route_failed"]
  /\ UNCHANGED <<bm_browser, bm_playwright, bm_locked, bm_waiters, liveBrowsers,
                 liveDrivers, handles, launches, launchLog, bop, uBrowser, uCtx,
                 uPage, bcalls>>

\* The ways the block of a scope ends. The block of new_page is that of
\* fetch_post_content (post_fetcher.py lines 41-52), whose wait for network
\* idle can time out: "idle_timeout" is that TimeoutError leaving the block
\* after a navigation that reached DOM-ready. In the block of new_context
\* (search) the same timeout is caught inside the block.
BlockEnds(scope) ==
  IF scope = "new_page" THEN {"normal", "block_raised", "idle_timeout"}
  ELSE {"normal", "block_raised"}

\* The block the context or page was yielded to ends, normally or by an
\* exception (lines 82 / 103).
BlockExit(u, how) ==
  /\ bpc[u] = "in_block"
  /\ bpc' = [bpc EXCEPT ![u] = Unwind(bop[u], "in_block")]
  /\ uExit' = [uExit EXCEPT ![u] = how]
  /\ UNCHANGED <<bm_browser, bm_playwright, bm_locked, bm_waiters, liveBrowsers,
                 liveDrivers, handles, launches, launchLog, bop, uBrowser, uCtx,
                 uPage, bcalls>>

\* page.close() returns (line 105).
PageClosed(u) ==
  /\ bpc[u] = "page_closing"
  /\ uPage' = [uPage EXCEPT ![u] = "closed"]
  /\ bpc' = [bpc EXCEPT ![u] = "ctx_closing"]
  /\ UNCHANGED <<bm_browser, bm_playwright, bm_locked, bm_waiters, liveBrowsers,
                 liveDrivers, handles, launches, launchLog, bop, uBrowser, uCtx,
                 uExit, bcalls>>

\* context.close() that leaves the context's pages as they are.
CtxClosed_LeavesPages(u) ==
  /\ bpc[u] = "ctx_closing"
  /\ uCtx' = [uCtx EXCEPT ![u] = "closed"]
  /\ bpc' = [bpc EXCEPT ![u] = "idle"]
  /\ UNCHANGED <<bm_browser, bm_playwright, bm_locked, bm_waiters, liveBrowsers,
                 liveDrivers, handles, launches, launchLog, bop, uBrowser, uPage,
                 uExit, bcalls>>

\* context.close() returns (line 84): the context is closed, and with it every
\* page that belongs to it.
CtxClosed(u) ==
  /\ bpc[u] = "ctx_closing"
  /\ uCtx' = [uCtx EXCEPT ![u] = "closed"]
  /\ uPage' = [uPage EXCEPT ![u] = IF uPage[u] = "open" THEN "closed" ELSE uPage[u]]
  /\ bpc' = [bpc EXCEPT ![u] = "idle"]
  /\ UNCHANGED <<bm_browser, bm_playwright, bm_locked, bm_waiters, liveBrowsers,
                 liveDrivers, handles, launches, launchLog, bop, uBrowser, uExit, bcalls>>

FetchPostContent_Reraise(exit) == IF exit = "normal" THEN "content" ELSE "raised"
\* PostFetcher.fetch_post_content (lines 39-56) is the one caller of new_page:
\* its block is lines 41-52 (unroute, goto, wait_for_load_state, the
\* extraction). What the call gives its caller, by the way the scope ended:
\* the extracted content, or {} from the except Exception of lines 54-56.
FetchPostContent(exit) == IF exit = "normal" THEN "content" ELSE "empty"

\* ---------------------------------------------------------- SearchScraper

\* Before search_multiple is called.
SMInit ==
  /\ smPc = "idle"
  /\ smIdx = 0
  /\ smLimit = 0
  /\ smRaw = 0
  /\ smError = "none"
  /\ smResults = <<>>
  /\ smLogStart = 0
  /\ smFetch = 0

Min_Left(a, b) == a
\* min(a, b), the length of list[:b] for a list of length a
Min(a, b) == IF a < b THEN a ELSE b

\* The loop ends after any keyword.
NextKeyword_Return(i) == "done"

\* The loop of search_multiple goes to its next keyword, or returns results
\* (lines 262, 283).
NextKeyword(i) == IF i < NumKeywords THEN "search" ELSE "done"

\* search_multiple(keywords, limit) is called: results = [] (line 260).
SearchMultipleCall ==
  /\ smPc = "idle"
  /\ \E l \in 0..MaxRaw : smLimit' = l
  /\ smIdx' = 1
  /\ smPc' = "search"
  /\ smResults' = <<>>
  /\ UNCHANGED <<smRaw, smError, smLogStart, smFetch>>

\* search(keyword) is called and awaits self.rate_limiter.acquire() (line 87).
\* An exception of acquire leaves search.
SearchAcquire ==
  /\ smPc = "search"
  /\ AcquireCall(1)
  /\ smLogStart' = Len(launchLog)
  /\ smRaw' = 0
  /\ IF pc'[1] # "idle"
     THEN smPc' = "acquiring" /\ smError' = "none"
     ELSE IF ret'[1] = "IndexError"
          THEN smPc' = "caught" /\ smError' = "IndexError"
          ELSE smPc' = "context" /\ smError' = "none"
  /\ UNCHANGED <<smIdx, smLimit, smResults, smFetch>>

\* The limiter's sleep ends and acquire returns to search.
SearchAcquired ==
  /\ smPc = "acquiring"
  /\ AcquireWake(1)
  /\ smPc' = "context"
  /\ UNCHANGED <<smIdx, smLimit, smRaw, smError, smResults, smLogStart, smFetch>>

\* async with self.browser.new_context() as context (line 120).
SearchOpenContext ==
  /\ smPc = "context"
  /\ NewContextCall(1)
  /\ smPc' = "opening"
  /\ UNCHANGED <<smIdx, smLimit, smRaw, smError, smResults, smLogStart, smFetch>>

\* new_context raised (the driver, the launch or the context creation
\* failed): search has no handler around line 120, the exception leaves it.
SearchOpenFailed ==
  /\ smPc = "opening"
  /\ bpc[1] = "idle"
  /\ uExit[1] \in {"driver_failed", "launch_failed", "ctx_failed"}
  /\ smError' = uExit[1]
  /\ smPc' = "caught"
  /\ UNCHANGED <<smIdx, smLimit, smRaw, smResults, smLogStart, smFetch>>

\* page = await context.new_page() (line 121) gives search its page, or
\* raises and leaves the block.
SearchNewPage ==
  /\ smPc = "opening"
  /\ bpc[1] = "in_block"
  /\ \/ /\ uPage' = [uPage EXCEPT ![1] = "open"]
        /\ smPc' = "page"
        /\ UNCHANGED <<bm_browser, bm_playwright, bm_locked, bm_waiters,
                       liveBrowsers, liveDrivers, handles, launches, launchLog,
                       bpc, bop, uBrowser, uCtx, uExit, bcalls, smError>>
     \/ /\ BlockExit(1, "block_raised")
        /\ smError' = "block_raised"
        /\ smPc' = "closing"
  /\ UNCHANGED <<smIdx, smLimit, smRaw, smResults, smLogStart, smFetch>>

\* Lines 124-175 on the open page: the block gathers some raw records and
\* closes its page (line 175), or an exception leaves it with the page open
\* (the count probe, the scroll and the extraction are outside any handler).
SearchBody ==
  /\ smPc = "page"
  /\ \/ /\ uPage' = [uPage EXCEPT ![1] = "closed"]
        /\ \E n \in 0..MaxRaw : smRaw' = n
        /\ smError' = "none"
        /\ smPc' = "block_end"
        /\ UNCHANGED <<bm_browser, bm_playwright, bm_locked, bm_waiters,
                       liveBrowsers, liveDrivers, handles, launches, launchLog,
                       bpc, bop, uBrowser, uCtx, uExit, bcalls>>
     \/ /\ BlockExit(1, "block_raised")
        /\ smRaw' = 0
        /\ smError' = "block_raised"
        /\ smPc' = "closing"
  /\ UNCHANGED <<smIdx, smLimit, smResults, smLogStart, smFetch>>

\* The block of search ends normally and the context manager takes over.
SearchBlockEnd ==
  /\ smPc = "block_end"
  /\ BlockExit(1, "normal")
  /\ smPc' = "closing"
  /\ UNCHANGED <<smIdx, smLimit, smRaw, smError, smResults, smLogStart, smFetch>>

\* The typed result of a search that ran to its end (lines 177-220):
\* total_results is the number of posts, at most the records kept by the
\* truncation to limit; a record that fails both parses is dropped.
SearchResult(k, posts) == [keyword |-> k, total_results |-> posts, error |-> "none"]

\* The substitute search_multiple appends for a search that raised (lines 270-281).
EmptyResult(k, why) == [keyword |-> k, total_results |-> 0, error |-> why]

\* The context manager has closed the context: an exception of the block goes
\* on out of search; otherwise search cuts the records to limit (line 178)
\* and, if content is wanted and there are records, enriches them (lines
\* 181-182), one fetch_post_content per record.
SearchClosed ==
  /\ smPc = "closing"
  /\ bpc[1] = "idle"
  /\ IF smError # "none"
     THEN /\ smPc' = "caught"
          /\ UNCHANGED <<smRaw, smFetch>>
     ELSE /\ smRaw' = Min(smRaw, smLimit)
          /\ \E should_fetch \in BOOLEAN :
               IF should_fetch /\ Min(smRaw, smLimit) > 0
               THEN smPc' = "enrich" /\ smFetch' = Min(smRaw, smLimit)
               ELSE smPc' = "convert" /\ smFetch' = 0
  /\ UNCHANGED <<smIdx, smLimit, smError, smResults, smLogStart>>

\* enrich_posts: the next fetch_post_content opens its page (browser user 2
\* stands for the fetch in progress); with none left, gather is over.
SearchFetch ==
  /\ smPc = "enrich"
  /\ IF smFetch > 0
     THEN /\ NewPageCall(2)
          /\ smFetch' = smFetch - 1
          /\ smPc' = "fetching"
     ELSE /\ smPc' = "convert"
          /\ UNCHANGED <<bmVars, smFetch>>
  /\ UNCHANGED <<smIdx, smLimit, smRaw, smError, smResults, smLogStart>>

\* The fetch_post_content in progress is over, with content or with {}.
SearchFetched ==
  /\ smPc = "fetching"
  /\ bpc[2] = "idle"
  /\ smPc' = "enrich"
  /\ UNCHANGED <<smIdx, smLimit, smRaw, smError, smResults, smLogStart, smFetch>>

\* Lines 184-220: the records become posts (a record that fails both parses
\* is dropped) and search returns its result, which search_multiple appends
\* (line 269).
SearchReturn ==
  /\ smPc = "convert"
  /\ \E m \in 0..smRaw : smResults' = Append(smResults, SearchResult(smIdx, m))
  /\ smPc' = NextKeyword(smIdx)
  /\ smIdx' = smIdx + 1
  /\ UNCHANGED <<smLimit, smRaw, smError, smLogStart, smFetch>>

\* except Exception (lines 270-281): an empty SearchResult takes the place
\* of the search that raised and the loop goes on.
SearchMultipleCatch ==
  /\ smPc = "caught"
  /\ smResults' = Append(smResults, EmptyResult(smIdx, smError))
  /\ smPc' = NextKeyword(smIdx)
  /\ smIdx' = smIdx + 1
  /\ smError' = "none"
  /\ UNCHANGED <<smLimit, smRaw, smLogStart, smFetch>>

\* ----------------------------------------------------------- ScrollHandler
\* ScrollHandler.__init__ stores the settings; the page is in some state when
\* the call begins. The unit of time is one scroll delay, the
\* asyncio.sleep(self.scroll_delay_ms / 1000) of one loop iteration.
SCInit ==
  /\ timeout_ms \in 1..MaxTimeout
  /\ max_no_change_iterations \in 1..MaxNoChange
  /\ pgHeight \in 0..MaxHeight
  /\ pgCount \in 0..MaxCount
  /\ target_count = 0
  /\ last_height = 0
  /\ last_count = 0
  /\ no_change_iterations = 0
  /\ scroll_count = 0
  /\ new_height = 0
  /\ scPc = "idle"
  /\ scRet = 0
  /\ scElapsed = 0
  /\ scConstant = TRUE
  /\ scLastProbe = 0
  /\ scMonotone = TRUE
  /\ scReached = FALSE
  /\ scReachedAt = 0

\* One handler with the largest settings on an empty page, never called.
SCQuiet ==
  /\ SCInit
  /\ timeout_ms = MaxTimeout
  /\ max_no_change_iterations = MaxNoChange
  /\ pgHeight = 0
  /\ pgCount = 0

\* await get_current_count() returned c.
GetCurrentCount(c) ==
  /\ scLastProbe' = c
  /\ scMonotone' = (scMonotone /\ c >= scLastProbe)
  /\ scReached' = (scReached \/ c >= target_count)
  /\ scReachedAt' = IF ~scReached /\ c >= target_count THEN scroll_count ELSE scReachedAt

\* The page loads or drops content while the call is suspended.
PageLoad ==
  /\ scPc \in {"probe", "scroll", "height", "count", "return"}
  /\ \E h \in 0..MaxHeight, c \in 0..MaxCount :
       /\ <<h, c>> # <<pgHeight, pgCount>>
       /\ pgHeight' = h
       /\ pgCount' = c
  /\ scConstant' = FALSE
  /\ UNCHANGED <<timeout_ms, max_no_change_iterations,
                 target_count, last_height, last_count, no_change_iterations,
                 scroll_count, new_height, scPc, scRet, scElapsed, scLastProbe,
                 scMonotone, scReached, scReachedAt>>

\* scroll_to_load_results is called: lines 48-53.
ScrollCall ==
  /\ scPc = "idle"
  /\ \E t \in 0..MaxTarget : target_count' = t
  /\ last_height' = 0
  /\ last_count' = 0
  /\ no_change_iterations' = 0
  /\ scroll_count' = 0
  /\ scPc' = "probe"
  /\ UNCHANGED <<timeout_ms, max_no_change_iterations,
                 pgHeight, pgCount, new_height, scRet, scElapsed, scConstant,
                 scLastProbe, scMonotone, scReached, scReachedAt>>

TargetReached_Strict(current_count, target) == current_count > target
\* if current_count >= target_count: break
TargetReached(current_count, target) == current_count >= target

\* Top of the loop, lines 56-64.
ScrollProbe ==
  /\ scPc = "probe"
  /\ GetCurrentCount(pgCount)
  /\ scPc' = IF TargetReached(pgCount, target_count) THEN "return" ELSE "scroll"
  /\ UNCHANGED <<timeout_ms, max_no_change_iterations,
                 pgHeight, pgCount, target_count, last_height, last_count,
                 no_change_iterations, scroll_count, new_height, scRet,
                 scElapsed, scConstant>>

\* Lines 67-78: scroll to the bottom, sleep one scroll delay, wait for the
\* network to settle (a timeout of that wait is swallowed).
ScrollDown ==
  /\ scPc = "scroll"
  /\ scroll_count < MaxScrolls
  /\ scroll_count' = scroll_count + 1
  /\ scElapsed' = scElapsed + 1
  /\ scPc' = "height"
  /\ UNCHANGED <<timeout_ms, max_no_change_iterations,
                 pgHeight, pgCount, target_count, last_height, last_count,
                 no_change_iterations, new_height, scRet, scConstant,
                 scLastProbe, scMonotone, scReached, scReachedAt>>

\* Line 81: new_height = document.body.scrollHeight.
ScrollHeight ==
  /\ scPc = "height"
  /\ new_height' = pgHeight
  /\ scPc' = "count"
  /\ UNCHANGED <<timeout_ms, max_no_change_iterations,
                 pgHeight, pgCount, target_count, last_height, last_count,
                 no_change_iterations, scroll_count, scRet, scElapsed,
                 scConstant, scLastProbe, scMonotone, scReached, scReachedAt>>

\* One unchanged value is enough.
NoChange_Either(h, c) == h = last_height \/ c = last_count

\* if new_height == last_height and new_count == last_count
NoChange(h, c) == h = last_height /\ c = last_count

\* Lines 82-108: new_count, the no-change counter, the second break.
ScrollCount ==
  /\ scPc = "count"
  /\ GetCurrentCount(pgCount)
  /\ IF NoChange(new_height, pgCount)
       THEN /\ no_change_iterations' = no_change_iterations + 1
            /\ IF no_change_iterations + 1 >= max_no_change_iterations
                 THEN /\ scPc' = "return"
                      /\ UNCHANGED <<last_height, last_count>>
                 ELSE /\ scPc' = "probe"
                      /\ last_height' = new_height
                      /\ last_count' = pgCount
       ELSE /\ no_change_iterations' = 0
            /\ scPc' = "probe"
            /\ last_height' = new_height
            /\ last_count' = pgCount
  /\ UNCHANGED <<timeout_ms, max_no_change_iterations,
                 pgHeight, pgCount, target_count, scroll_count, new_height,
                 scRet, scElapsed, scConstant>>

\* Line 110: return await get_current_count().
ScrollReturn ==
  /\ scPc = "return"
  /\ GetCurrentCount(pgCount)
  /\ scRet' = pgCount
  /\ scPc' = "done"
  /\ UNCHANGED <<timeout_ms, max_no_change_iterations,
                 pgHeight, pgCount, target_count, last_height, last_count,
                 no_change_iterations, scroll_count, new_height, scElapsed,
                 scConstant>>

\* ----------------------------------------------------------- DataExtractor
\* A raw record is its id (0: no id) and the keyword stamped on it (0: none).
RawRecords == [id : 0..MaxId, keyword : {0}]
RawLists == UNION {[1..n -> RawRecords] : n \in 0..MaxPosts}
\* A result card of the DOM: does it have a title element, a /p/ link.
Cards == [title : BOOLEAN, url : BOOLEAN]
CardLists == UNION {[1..n -> Cards] : n \in 0..MaxPosts}

DEInit ==
  /\ dePc = "idle"
  /\ deKeyword = 0
  /\ dePosts = <<>>
  /\ deLog = <<>>
  /\ deTyped = <<>>
  /\ deCards = <<>>

\* The filter of lines 119-124: drop records without id and repeats of an id.
RECURSIVE DedupById(_, _)
DedupById(posts, seen) ==
  IF posts = <<>> THEN <<>>
  ELSE LET p == Head(posts) IN
       IF p.id = 0 \/ p.id \in seen
         THEN DedupById(Tail(posts), seen)
         ELSE <<p>> \o DedupById(Tail(posts), seen \cup {p.id})

\* The script of _extract_from_react_state: what the fiber of the root holds
\* is returned as found (line 107); otherwise what the result elements hold,
\* deduplicated.
ReactState(root, elements) ==
  IF Len(root) > 0 THEN root ELSE DedupById(elements, {})

\* The script of _extract_from_dom: a record for every card with a title and
\* a link, its id the card's index + 1.
DomRecords(cards) ==
  LET kept == SelectSeq([i \in 1..Len(cards) |-> i],
                        LAMBDA i : cards[i].title /\ cards[i].url)
  IN [j \in 1..Len(kept) |-> [id |-> kept[j], keyword |-> 0]]

Swallows_AllButPreloads(strategy) == strategy \in {1, 2, 4}
\* Each strategy's body is inside try / except Exception.
Swallows(strategy) == strategy \in {1, 2, 3, 4}

NotPosts_Always(posts) == TRUE
\* if not posts
NotPosts(posts) == posts = <<>>

\* Strategy k was awaited and came back: failed inside, or with found.
StrategyDone(k, failed, found, root, next) ==
  IF failed /\ ~Swallows(k)
    THEN /\ dePc' = "raised"
         /\ deLog' = Append(deLog, [strategy |-> k, failed |-> TRUE, count |-> 0, root |-> FALSE])
         /\ UNCHANGED <<deKeyword, dePosts, deTyped>>
    ELSE LET posts == IF failed THEN <<>> ELSE found IN
         /\ dePosts' = posts
         /\ deLog' = Append(deLog, [strategy |-> k, failed |-> failed,
                                    count |-> Len(posts),
                                    root |-> ~failed /\ root])
         /\ dePc' = next
         /\ UNCHANGED <<deKeyword, deTyped>>

\* extract_posts is called: line 31.
ExtractCall ==
  /\ dePc = "idle"
  /\ \E k \in Keywords : deKeyword' = k
  /\ dePosts' = <<>>
  /\ dePc' = "s1"
  /\ UNCHANGED <<deLog, deTyped, deCards>>

\* Line 34, _extract_from_react_state (lines 57-135).
ExtractFromReactState ==
  /\ dePc = "s1"
  /\ \E failed \in BOOLEAN, root \in RawLists, elements \in RawLists :
       /\ StrategyDone(1, failed, ReactState(root, elements), Len(root) > 0, "s2")
       /\ UNCHANGED deCards

\* Lines 36-38, _extract_from_next_data (lines 137-179): the post array of the
\* first location of the page data that holds one.
ExtractFromNextData ==
  /\ dePc = "s2"
  /\ IF NotPosts(dePosts)
       THEN \E failed \in BOOLEAN, posts \in RawLists :
              /\ StrategyDone(2, failed, posts, FALSE, "s3")
              /\ UNCHANGED deCards
       ELSE dePc' = "s3" /\ UNCHANGED <<deKeyword, dePosts, deLog, deTyped, deCards>>

\* Lines 40-42, _extract_from_preloads (lines 181-203).
ExtractFromPreloads ==
  /\ dePc = "s3"
  /\ IF NotPosts(dePosts)
       THEN \E failed \in BOOLEAN, posts \in RawLists :
              /\ StrategyDone(3, failed, posts, FALSE, "s4")
              /\ UNCHANGED deCards
       ELSE dePc' = "s4" /\ UNCHANGED <<deKeyword, dePosts, deLog, deTyped, deCards>>

\* Lines 44-46, _extract_from_dom (lines 205-306).
ExtractFromDom ==
  /\ dePc = "s4"
  /\ IF NotPosts(dePosts)
       THEN \E failed \in BOOLEAN, cards \in CardLists :
              /\ StrategyDone(4, failed, DomRecords(cards), FALSE, "stamp")
              /\ deCards' = IF failed THEN <<>> ELSE cards
       ELSE dePc' = "stamp" /\ UNCHANGED <<deKeyword, dePosts, deLog, deTyped, deCards>>

\* Lines 48-55: stamp the keyword on every record and return the list.
ExtractReturn ==
  /\ dePc = "stamp"
  /\ dePosts' = [i \in 1..Len(dePosts) |-> [dePosts[i] EXCEPT !.keyword = deKeyword]]
  /\ dePc' = "done"
  /\ UNCHANGED <<deKeyword, deLog, deTyped, deCards>>

\* search, lines 164-201, on the extracted list: cut to the limit, then every
\* record becomes a Post with the record's id (parsed, or rebuilt minimally)
\* or is dropped when both attempts fail.
ParseIntoModels ==
  /\ dePc = "done"
  /\ \E limit \in 1..MaxPosts :
       LET sliced == SubSeq(dePosts, 1, Min(limit, Len(dePosts))) IN
       \E parsed \in [1..Len(sliced) -> BOOLEAN] :
         LET kept == SelectSeq([i \in 1..Len(sliced) |-> i], LAMBDA i : parsed[i])
         IN deTyped' = [j \in 1..Len(kept) |-> sliced[kept[j]].id]
  /\ dePc' = "typed"
  /\ UNCHANGED <<deKeyword, dePosts, deLog, deCards>>

\* ------------------------------------------------------------- PostFetcher
\* A post is its id, whether it has a canonical_url, and its body_html:
\* "none", "search" (what the search gave) or "page" (what the post page gave).
ENInit ==
  /\ enPc = "idle"
  /\ max_concurrent = 1
  /\ enInput = <<>>
  /\ enPosts = <<>>
  /\ enValue = 0
  /\ taskPc = <<>>
  /\ enOutcome = <<>>
  /\ enOut = <<>>
  /\ enDoneOrder = <<>>
  /\ enResult = <<>>

Update_Overwrites(post, content) == [post EXCEPT !.body_html = content]
\* post.update(content): content "none" is the empty dictionary, "null" the
\* dictionary of a page whose embedded post has no body_html and whose DOM has
\* no body container (body_html: None), "page" one with the page's body_html.
Update(post, content) ==
  IF content = "none" THEN post
  ELSE IF content = "null" THEN [post EXCEPT !.body_html = "none"]
  ELSE [post EXCEPT !.body_html = content]

SlotFree_Always == TRUE
\* async with semaphore enters without waiting.
SlotFree == enValue > 0

ResultAt_ByCompletion(i) ==
  IF taskPc[enDoneOrder[i]] = "raised" THEN enPosts[enDoneOrder[i]] ELSE enOut[enDoneOrder[i]]
\* Lines 175-180: slot i of gather's list, or posts[i] when it is an exception.
ResultAt(i) == IF taskPc[i] = "raised" THEN enPosts[i] ELSE enOut[i]

\* enrich_posts is called: lines 148-171, up to the await of gather.
EnrichCall ==
  /\ enPc = "idle"
  /\ \E n \in 0..MaxEnrich, m \in 1..MaxConcurrent, fetch_content \in BOOLEAN :
     \E urls \in [1..n -> BOOLEAN], body \in {"none", "search"} :
       LET posts == [i \in 1..n |-> [id |-> i, canonical_url |-> urls[i],
                                     body_html |-> body]] IN
       /\ enInput' = posts
       /\ enPosts' = posts
       /\ max_concurrent' = m
       /\ enValue' = m
       /\ enOut' = posts
       /\ enOutcome' = [i \in 1..n |-> "none"]
       /\ IF fetch_content
            THEN /\ enPc' = "gather"
                 /\ taskPc' = [i \in 1..n |-> "created"]
                 /\ enResult' = <<>>
            ELSE /\ enPc' = "returned"
                 /\ taskPc' = [i \in 1..n |-> "unused"]
                 /\ enResult' = posts
  /\ enDoneOrder' = <<>>

\* fetch_one, lines 157-163: take a slot or wait for one; with the slot, a post
\* without canonical_url is returned at once, the others go to sleep.
FetchOneEnter(i) ==
  /\ enPc = "gather"
  /\ taskPc[i] = "created" \/ (taskPc[i] = "waiting" /\ SlotFree)
  /\ IF ~SlotFree
       THEN /\ taskPc' = [taskPc EXCEPT ![i] = "waiting"]
            /\ UNCHANGED <<enValue, enOutcome, enOut, enDoneOrder>>
       ELSE IF ~enPosts[i].canonical_url
         THEN /\ taskPc' = [taskPc EXCEPT ![i] = "done"]
              /\ enOutcome' = [enOutcome EXCEPT ![i] = "nourl"]
              /\ enOut' = [enOut EXCEPT ![i] = enPosts[i]]
              /\ enDoneOrder' = Append(enDoneOrder, i)
              /\ UNCHANGED enValue
         ELSE /\ taskPc' = [taskPc EXCEPT ![i] = "delay"]
              /\ enValue' = enValue - 1
              /\ UNCHANGED <<enOutcome, enOut, enDoneOrder>>
  /\ UNCHANGED <<enPc, max_concurrent, enInput, enPosts, enResult>>

\* Line 163 is over, line 165 calls fetch_post_content, which opens a page.
FetchOneVisit(i) ==
  /\ enPc = "gather"
  /\ taskPc[i] = "delay"
  /\ taskPc' = [taskPc EXCEPT ![i] = "visit"]
  /\ UNCHANGED <<enPc, max_concurrent, enInput, enPosts, enValue, enOutcome,
                 enOut, enDoneOrder, enResult>>

FetchOneDone_KeepsSlot(i) ==
  /\ enPc = "gather"
  /\ taskPc[i] = "visit"
  /\ \E outcome \in {"page", "null", "none", "raise"} :
       /\ enOutcome' = [enOutcome EXCEPT ![i] = outcome]
       /\ IF outcome = "raise"
            THEN /\ taskPc' = [taskPc EXCEPT ![i] = "raised"]
                 /\ UNCHANGED <<enPosts, enOut>>
            ELSE /\ taskPc' = [taskPc EXCEPT ![i] = "done"]
                 /\ enPosts' = [enPosts EXCEPT ![i] = Update(enPosts[i], outcome)]
                 /\ enOut' = [enOut EXCEPT ![i] = Update(enPosts[i], outcome)]
  /\ UNCHANGED enValue
  /\ enDoneOrder' = Append(enDoneOrder, i)
  /\ UNCHANGED <<enPc, max_concurrent, enInput, enResult>>
\* Lines 165-167: the fetch is over (its page closed) with the page's content
\* (with or without a body_html), with the empty dictionary of a failed
\* fetch_post_content, or with an exception; the slot is given back.
FetchOneDone(i) ==
  /\ enPc = "gather"
  /\ taskPc[i] = "visit"
  /\ \E outcome \in {"page", "null", "none", "raise"} :
       /\ enOutcome' = [enOutcome EXCEPT ![i] = outcome]
       /\ IF outcome = "raise"
            THEN /\ taskPc' = [taskPc EXCEPT ![i] = "raised"]
                 /\ UNCHANGED <<enPosts, enOut>>
            ELSE /\ taskPc' = [taskPc EXCEPT ![i] = "done"]
                 /\ enPosts' = [enPosts EXCEPT ![i] = Update(enPosts[i], outcome)]
                 /\ enOut' = [enOut EXCEPT ![i] = Update(enPosts[i], outcome)]
  /\ enValue' = enValue + 1
  /\ enDoneOrder' = Append(enDoneOrder, i)
  /\ UNCHANGED <<enPc, max_concurrent, enInput, enResult>>

\* Lines 171-183: gather has every task's outcome; build and return result.
EnrichReturn ==
  /\ enPc = "gather"
  /\ \A i \in 1..Len(taskPc) : taskPc[i] \in {"done", "raised"}
  /\ enResult' = [i \in 1..Len(taskPc) |-> ResultAt(i)]
  /\ enPc' = "returned"
  /\ UNCHANGED <<max_concurrent, enInput, enPosts, enValue, taskPc, enOutcome,
                 enOut, enDoneOrder>>

\* ------------------------------------------- SearchScraper.search, records
\* The fields that _create_minimal_post reads from a raw record.
MinimalFields == {"id", "publication_id", "title", "slug", "canonical_url",
                  "post_date", "type", "audience"}
\* The fields of SubstackPost without a default, keyword apart.
RequiredFields == {"id", "publication_id", "slug", "title", "canonical_url",
                   "post_date"}
\* A field of a raw record: the key is missing, or its value is one that the
\* field's type accepts ("good") or rejects ("bad": a null title, an id that
\* is not a number).
FieldStates == {"missing", "good", "bad"}

\* The raw records of the inputs: complete, with nothing but an id, and
\* complete with a null title.
RawShapes ==
  { [f \in MinimalFields |-> "good"],
    [f \in MinimalFields |-> IF f = "id" THEN "good" ELSE "missing"],
    [f \in MinimalFields |-> IF f = "title" THEN "bad" ELSE "good"] }

\* A raw record: its id value (0: none), the response it came in (0: the
\* extraction chain), its keyword (0: no such key, 1: the keyword of this
\* search, 2: another one), its fields, and its body_html and wordcount
\* ("search": as found, "page": from the post page, "odd": from the post page
\* and of a type the model rejects).
SearchRecords(r, ids) ==
  [id : ids, src : {r}, keyword : {0, 2}, fields : RawShapes, body : {"search"}]

Responses == 1..NumResponses
\* The JSON bodies a response can carry: nothing that is a list of posts, or
\* one record, without an id or with the id r.
Bodies(r) == {<<>>} \cup {<<post>> : post \in SearchRecords(r, {0, r})}
\* The lists extract_posts can return: record i has the id i.
ExtractedLists ==
  UNION { {list \in [1..n -> SearchRecords(0, 1..n)] : \A i \in 1..n : list[i].id = i} :
          n \in 0..MaxPosts }

PLInit ==
  /\ plPc = "idle"
  /\ captured_posts = <<>>
  /\ rsp = [r \in Responses |-> "none"]
  /\ arrivals = <<>>
  /\ raw_posts = <<>>
  /\ plAlias = FALSE
  /\ plExtracted = FALSE
  /\ plLimit = 0
  /\ plFound = 0
  /\ plPosts = <<>>

PostAudience_Given(raw_post) == "given"
\* audience: str = "everyone": the default when the key is missing.
PostAudience(raw_post) ==
  IF raw_post.fields["audience"] = "missing" THEN "everyone" ELSE "given"

\* type: str = "newsletter"
PostType(raw_post) ==
  IF raw_post.fields["type"] = "missing" THEN "newsletter" ELSE "given"

\* A validation that raised.
NoPost(raw_post, how) ==
  [ok |-> FALSE, id |-> raw_post.id, src |-> raw_post.src, keyword |-> 0,
   how |-> how, type |-> "none", audience |-> "none"]

\* SubstackPost(**raw_post)
StrictParse(raw_post) ==
  IF /\ raw_post.keyword # 0
     /\ \A f \in RequiredFields : raw_post.fields[f] = "good"
     /\ \A f \in MinimalFields : raw_post.fields[f] # "bad"
     /\ raw_post.body # "odd"
  THEN [ok |-> TRUE, id |-> raw_post.id, src |-> raw_post.src,
        keyword |-> raw_post.keyword, how |-> "strict",
        type |-> PostType(raw_post), audience |-> PostAudience(raw_post)]
  ELSE NoPost(raw_post, "strict")

\* raw_post.get(f, default): the default only when the key is missing.
Get(raw_post, f) ==
  IF raw_post.fields[f] = "missing" THEN "good" ELSE raw_post.fields[f]

\* _create_minimal_post(raw_post, keyword)
CreateMinimalPost(raw_post, keyword) ==
  IF \A f \in MinimalFields : Get(raw_post, f) = "good"
  THEN [ok |-> TRUE, id |-> raw_post.id, src |-> raw_post.src,
        keyword |-> keyword, how |-> "minimal",
        type |-> PostType(raw_post), audience |-> PostAudience(raw_post)]
  ELSE NoPost(raw_post, "minimal")

\* The raw records given to the constructor: with or without a keyword, each
\* field missing, valid or invalid.
PostInputs ==
  [id : {1}, src : {0}, keyword : {0, 1}, fields : [MinimalFields -> FieldStates],
   body : {"search"}]

POQuiet ==
  /\ poRaw = [id |-> 0, src |-> 0, keyword |-> 0,
              fields |-> [f \in MinimalFields |-> "missing"], body |-> "search"]
  /\ poPost = NoPost(poRaw, "none")

POInit ==
  /\ poRaw \in PostInputs
  /\ poPost = NoPost(poRaw, "none")

\* post = SubstackPost(**raw_post)
Construct ==
  /\ poPost.how = "none"
  /\ poPost' = StrictParse(poRaw)
  /\ UNCHANGED poRaw

\* No second attempt.
ToPost_StrictOnly(raw_post, keyword) == StrictParse(raw_post)

\* Lines 186-201 for one record: the strict Post, else the minimal one.
ToPost(raw_post, keyword) ==
  IF StrictParse(raw_post).ok THEN StrictParse(raw_post)
  ELSE CreateMinimalPost(raw_post, keyword)

\* for post in raw_posts: post["keyword"] = keyword (lines 169-171)
Stamp(list, keyword) == [i \in 1..Len(list) |-> [list[i] EXCEPT !.keyword = keyword]]

\* No truncation.
Slice_None(list, limit) == list

\* raw_posts[:limit], limit >= 0
Slice(list, limit) == SubSeq(list, 1, Min(limit, Len(list)))

\* if isinstance(post, dict) and post.get("id") (line 110)
HasId(post) == post.id # 0

\* search is called: captured_posts = [] (line 93), and once the page is
\* there the handler is registered (line 124).
SearchListen ==
  /\ plPc = "idle"
  /\ plPc' = "listening"
  /\ UNCHANGED <<captured_posts, rsp, arrivals, raw_posts, plAlias, plExtracted,
                 plLimit, plFound, plPosts>>

\* A response arrives at the page while it is open: handle_response starts and
\* suspends in await response.json() (line 102).
ResponseArrives(r) ==
  /\ plPc = "listening" \/ (plPc = "stamped" /\ plAlias)
  /\ rsp[r] = "none"
  /\ rsp' = [rsp EXCEPT ![r] = "reading"]
  /\ arrivals' = Append(arrivals, r)
  /\ UNCHANGED <<plPc, captured_posts, raw_posts, plAlias, plExtracted, plLimit,
                 plFound, plPosts>>

\* response.json() returns to the handler while search is suspended in one of
\* its awaits; the handler appends the records that have an id (lines
\* 103-111). A json() that raises is the empty body. Once raw_posts is another
\* list than captured_posts, captured_posts is not read again.
ResponseJson(r) ==
  /\ plPc = "listening" \/ (plPc = "stamped" /\ plAlias)
  /\ rsp[r] = "reading"
  /\ rsp' = [rsp EXCEPT ![r] = "over"]
  /\ \E body \in Bodies(r) :
       LET found == SelectSeq(body, HasId) IN
       /\ captured_posts' = captured_posts \o found
       /\ raw_posts' = IF plAlias THEN raw_posts \o found ELSE raw_posts
  /\ plFound' = Len(raw_posts')
  /\ UNCHANGED <<plPc, arrivals, plAlias, plExtracted, plLimit, plPosts>>

Truthy_Never(list) == FALSE
\* captured_posts if captured_posts else [] (line 162); if not raw_posts
Truthy(list) == list # <<>>

\* Lines 161-171: raw_posts is the captured list itself when it is not empty,
\* else what extract_posts returns; every record of it is stamped.
Materialize ==
  /\ plPc = "listening"
  /\ IF Truthy(captured_posts)
     THEN /\ raw_posts' = Stamp(captured_posts, 1)
          /\ captured_posts' = Stamp(captured_posts, 1)
          /\ plAlias' = TRUE
          /\ plExtracted' = FALSE
     ELSE /\ \E extracted \in ExtractedLists : raw_posts' = Stamp(extracted, 1)
          /\ plAlias' = FALSE
          /\ plExtracted' = TRUE
          /\ UNCHANGED captured_posts
  /\ plFound' = Len(raw_posts')
  /\ plPc' = "stamped"
  /\ UNCHANGED <<rsp, arrivals, plLimit, plPosts>>

\* Lines 175-178: await page.close() and the close of the context have
\* returned; raw_posts = raw_posts[:limit] is a new list.
SearchSlice ==
  /\ plPc = "stamped"
  /\ \E limit \in 0..MaxPosts :
       /\ plLimit' = limit
       /\ raw_posts' = Slice(raw_posts, limit)
  /\ plAlias' = FALSE
  /\ plPc' = "sliced"
  /\ UNCHANGED <<captured_posts, rsp, arrivals, plExtracted, plFound, plPosts>>

\* What fetch_one leaves of a post (post_fetcher.py lines 155-165).
Enriched(post, outcome) ==
  IF post.fields["canonical_url"] # "good" \/ outcome = "failed" THEN post
  ELSE [post EXCEPT !.body = outcome]

\* Lines 181-182: enrich_posts when should_fetch and raw_posts.
SearchEnrich ==
  /\ plPc = "sliced"
  /\ \E should_fetch \in BOOLEAN :
       IF should_fetch /\ raw_posts # <<>>
       THEN \E outcome \in [1..Len(raw_posts) -> {"failed", "page", "odd"}] :
              raw_posts' = [i \in 1..Len(raw_posts) |-> Enriched(raw_posts[i], outcome[i])]
       ELSE UNCHANGED raw_posts
  /\ plPc' = "enriched"
  /\ UNCHANGED <<captured_posts, rsp, arrivals, plAlias, plExtracted, plLimit,
                 plFound, plPosts>>

\* SearchResult(keyword=keyword, total_results=len(posts), posts=posts, ...)
\* (lines 205-211)
ResultOf(keyword, list) ==
  [keyword |-> keyword, total_results |-> Len(list), posts |-> list]

\* Lines 184-220: the posts of the result, in the order of raw_posts.
SearchConvert ==
  /\ plPc = "enriched"
  /\ plPosts' = SelectSeq([i \in 1..Len(raw_posts) |-> ToPost(raw_posts[i], 1)],
                        LAMBDA post : post.ok)
  /\ plPc' = "returned"
  /\ UNCHANGED <<captured_posts, rsp, arrivals, raw_posts, plAlias, plExtracted,
                 plLimit, plFound>>

\* ---------------------------------------------------------- specifications
\* The parts of the pipeline a specification does not exercise stay as built.
AuxQuiet == SCQuiet /\ DEInit /\ ENInit /\ PLInit /\ POQuiet

\* The limiter alone: callers issue acquire, try_acquire and reset while the
\* clock advances; the browser is not used.
InitRateLimiter == RLInit /\ BMInit /\ SMInit /\ AuxQuiet

NextRateLimiter ==
  \/ (\E p \in Callers : AcquireCall(p)) /\ UNCHANGED <<bmVars, smVars, auxVars>>
  \/ (\E p \in Callers : AcquireResume(p)) /\ UNCHANGED <<bmVars, smVars, auxVars>>
  \/ (\E p \in Callers : AcquireWake(p)) /\ UNCHANGED <<bmVars, smVars, auxVars>>
  \/ (\E p \in Callers : TryAcquireCall(p)) /\ UNCHANGED <<bmVars, smVars, auxVars>>
  \/ (\E p \in Callers : TryAcquireResume(p)) /\ UNCHANGED <<bmVars, smVars, auxVars>>
  \/ Reset /\ UNCHANGED <<bmVars, smVars, auxVars>>
  \/ Tick /\ UNCHANGED <<bmVars, smVars, auxVars>>

SpecRateLimiter == InitRateLimiter /\ [][NextRateLimiter]_vars

\* The browser manager alone: users issue start, stop, new_context and
\* new_page; the limiter is idle with its largest configuration.
InitBrowser ==
  /\ RLInit
  /\ max_requests = MaxCapacity
  /\ window = MaxWindow
  /\ BMInit
  /\ SMInit
  /\ AuxQuiet

NextBrowser ==
  \/ (\E u \in Users : StartCall(u)) /\ UNCHANGED <<rlVars, smVars, auxVars>>
  \/ (\E u \in Users : StartResume(u)) /\ UNCHANGED <<rlVars, smVars, auxVars>>
  \/ (\E u \in Users : StartDriverDone(u)) /\ UNCHANGED <<rlVars, smVars, auxVars>>
  \/ (\E u \in Users : Launched(u)) /\ UNCHANGED <<rlVars, smVars, auxVars>>
  \/ (\E u \in Users : StopCall(u)) /\ UNCHANGED <<rlVars, smVars, auxVars>>
  \/ (\E u \in Users : StopResume(u)) /\ UNCHANGED <<rlVars, smVars, auxVars>>
  \/ (\E u \in Users : StopClosed(u)) /\ UNCHANGED <<rlVars, smVars, auxVars>>
  \/ (\E u \in Users : StopDriverDone(u)) /\ UNCHANGED <<rlVars, smVars, auxVars>>
  \/ (\E u \in Users : NewContextCall(u)) /\ UNCHANGED <<rlVars, smVars, auxVars>>
  \/ (\E u \in Users : NewPageCall(u)) /\ UNCHANGED <<rlVars, smVars, auxVars>>
  \/ (\E u \in Users : CtxCreated(u)) /\ UNCHANGED <<rlVars, smVars, auxVars>>
  \/ (\E u \in Users : PageCreated(u)) /\ UNCHANGED <<rlVars, smVars, auxVars>>
  \/ (\E u \in Users : RouteDone(u)) /\ UNCHANGED <<rlVars, smVars, auxVars>>
  \/ /\ (\E u \in Users : \E how \in BlockEnds(bop[u]) : BlockExit(u, how))
     /\ UNCHANGED <<rlVars, smVars, auxVars>>
  \/ (\E u \in Users : PageClosed(u)) /\ UNCHANGED <<rlVars, smVars, auxVars>>
  \/ (\E u \in Users : CtxClosed(u)) /\ UNCHANGED <<rlVars, smVars, auxVars>>

SpecBrowser == InitBrowser /\ [][NextBrowser]_vars

\* One search_multiple call, run by limiter caller 1 and browser user 1 on a
\* fresh limiter, of any capacity and the longest window, and a browser that
\* was not started.
InitSearch == RLInit /\ window = MaxWindow /\ BMInit /\ SMInit /\ AuxQuiet

NextSearch ==
  \/ SearchMultipleCall /\ UNCHANGED <<rlVars, bmVars, auxVars>>
  \/ SearchAcquire /\ UNCHANGED <<bmVars, auxVars>>
  \/ SearchAcquired /\ UNCHANGED <<bmVars, auxVars>>
  \* The clock is read by acquire only: time that passes during the rest of a
  \* search is taken before the next acquire.
  \/ /\ smPc \in {"search", "acquiring"}
     /\ Tick
     /\ UNCHANGED <<bmVars, smVars, auxVars>>
  \/ SearchOpenContext /\ UNCHANGED <<rlVars, auxVars>>
  \/ smPc = "opening" /\ StartDriverDone(1) /\ UNCHANGED <<rlVars, smVars, auxVars>>
  \/ smPc = "opening" /\ Launched(1) /\ UNCHANGED <<rlVars, smVars, auxVars>>
  \/ smPc = "opening" /\ CtxCreated(1) /\ UNCHANGED <<rlVars, smVars, auxVars>>
  \/ SearchOpenFailed /\ UNCHANGED <<rlVars, bmVars, auxVars>>
  \/ SearchNewPage /\ UNCHANGED <<rlVars, auxVars>>
  \/ SearchBody /\ UNCHANGED <<rlVars, auxVars>>
  \/ SearchBlockEnd /\ UNCHANGED <<rlVars, auxVars>>
  \/ smPc = "closing" /\ CtxClosed(1) /\ UNCHANGED <<rlVars, smVars, auxVars>>
  \/ SearchClosed /\ UNCHANGED <<rlVars, bmVars, auxVars>>
  \/ SearchFetch /\ UNCHANGED <<rlVars, auxVars>>
  \/ smPc = "fetching" /\ CtxCreated(2) /\ UNCHANGED <<rlVars, smVars, auxVars>>
  \/ smPc = "fetching" /\ PageCreated(2) /\ UNCHANGED <<rlVars, smVars, auxVars>>
  \/ smPc = "fetching" /\ RouteDone(2) /\ UNCHANGED <<rlVars, smVars, auxVars>>
  \/ /\ smPc = "fetching"
     /\ \E how \in BlockEnds(bop[2]) : BlockExit(2, how)
     /\ UNCHANGED <<rlVars, smVars, auxVars>>
  \/ smPc = "fetching" /\ PageClosed(2) /\ UNCHANGED <<rlVars, smVars, auxVars>>
  \/ smPc = "fetching" /\ CtxClosed(2) /\ UNCHANGED <<rlVars, smVars, auxVars>>
  \/ SearchFetched /\ UNCHANGED <<rlVars, bmVars, auxVars>>
  \/ SearchReturn /\ UNCHANGED <<rlVars, bmVars, auxVars>>
  \/ SearchMultipleCatch /\ UNCHANGED <<rlVars, bmVars, auxVars>>

SpecSearch == InitSearch /\ [][NextSearch]_vars

\* scroll_to_load_results, called once on a page that may change at every
\* suspension point; the limiter and the browser manager are idle.
InitScroll ==
  /\ RLInit
  /\ max_requests = MaxCapacity
  /\ window = MaxWindow
  /\ BMInit
  /\ SMInit
  /\ SCInit
  /\ DEInit
  /\ ENInit
  /\ PLInit
  /\ POQuiet

NextScroll ==
  \/ PageLoad /\ UNCHANGED <<rlVars, bmVars, smVars, deVars, enVars, plVars, poVars>>
  \/ ScrollCall /\ UNCHANGED <<rlVars, bmVars, smVars, deVars, enVars, plVars, poVars>>
  \/ ScrollProbe /\ UNCHANGED <<rlVars, bmVars, smVars, deVars, enVars, plVars, poVars>>
  \/ ScrollDown /\ UNCHANGED <<rlVars, bmVars, smVars, deVars, enVars, plVars, poVars>>
  \/ ScrollHeight /\ UNCHANGED <<rlVars, bmVars, smVars, deVars, enVars, plVars, poVars>>
  \/ ScrollCount /\ UNCHANGED <<rlVars, bmVars, smVars, deVars, enVars, plVars, poVars>>
  \/ ScrollReturn /\ UNCHANGED <<rlVars, bmVars, smVars, deVars, enVars, plVars, poVars>>

SpecScroll == InitScroll /\ [][NextScroll]_vars

\* extract_posts on a page whose four sources hold anything, followed by the
\* typed conversion of search; everything else is idle.
InitExtract ==
  /\ RLInit
  /\ max_requests = MaxCapacity
  /\ window = MaxWindow
  /\ BMInit
  /\ SMInit
  /\ SCQuiet
  /\ DEInit
  /\ ENInit
  /\ PLInit
  /\ POQuiet

NextExtract ==
  \/ ExtractCall /\ UNCHANGED <<rlVars, bmVars, smVars, scVars, enVars, plVars, poVars>>
  \/ ExtractFromReactState /\ UNCHANGED <<rlVars, bmVars, smVars, scVars, enVars, plVars, poVars>>
  \/ ExtractFromNextData /\ UNCHANGED <<rlVars, bmVars, smVars, scVars, enVars, plVars, poVars>>
  \/ ExtractFromPreloads /\ UNCHANGED <<rlVars, bmVars, smVars, scVars, enVars, plVars, poVars>>
  \/ ExtractFromDom /\ UNCHANGED <<rlVars, bmVars, smVars, scVars, enVars, plVars, poVars>>
  \/ ExtractReturn /\ UNCHANGED <<rlVars, bmVars, smVars, scVars, enVars, plVars, poVars>>
  \/ ParseIntoModels /\ UNCHANGED <<rlVars, bmVars, smVars, scVars, enVars, plVars, poVars>>

SpecExtract == InitExtract /\ [][NextExtract]_vars

\* One enrich_posts call: the event loop runs the fetch_one tasks in any
\* order; everything else is idle.
InitEnrich ==
  /\ RLInit
  /\ max_requests = MaxCapacity
  /\ window = MaxWindow
  /\ BMInit
  /\ SMInit
  /\ SCQuiet
  /\ DEInit
  /\ ENInit
  /\ PLInit
  /\ POQuiet

NextEnrich ==
  \/ EnrichCall /\ UNCHANGED <<rlVars, bmVars, smVars, scVars, deVars, plVars, poVars>>
  \/ (\E i \in 1..Len(taskPc) : FetchOneEnter(i)) /\ UNCHANGED <<rlVars, bmVars, smVars, scVars, deVars, plVars, poVars>>
  \/ (\E i \in 1..Len(taskPc) : FetchOneVisit(i)) /\ UNCHANGED <<rlVars, bmVars, smVars, scVars, deVars, plVars, poVars>>
  \/ (\E i \in 1..Len(taskPc) : FetchOneDone(i)) /\ UNCHANGED <<rlVars, bmVars, smVars, scVars, deVars, plVars, poVars>>
  \/ EnrichReturn /\ UNCHANGED <<rlVars, bmVars, smVars, scVars, deVars, plVars, poVars>>

SpecEnrich == InitEnrich /\ [][NextEnrich]_vars

\* The same call under the event loop's scheduling: a task that can run is
\* run, a sleep ends, a page visit ends (goto and the idle wait have
\* timeouts), gather returns once every task is over.
SpecEnrichFair == InitEnrich /\ [][NextEnrich]_vars /\ WF_vars(NextEnrich)

\* The records of one search call: the response handlers run whenever search
\* is suspended; limiter, browser, scrolling and enrichment tasks are idle.
InitPipeline ==
  /\ RLInit
  /\ max_requests = MaxCapacity
  /\ window = MaxWindow
  /\ BMInit
  /\ SMInit
  /\ SCQuiet
  /\ DEInit
  /\ ENInit
  /\ PLInit
  /\ POQuiet

NextPipeline ==
  \/ SearchListen /\ UNCHANGED <<rlVars, bmVars, smVars, scVars, deVars, enVars, poVars>>
  \/ /\ \E r \in Responses : ResponseArrives(r)
     /\ UNCHANGED <<rlVars, bmVars, smVars, scVars, deVars, enVars, poVars>>
  \/ /\ \E r \in Responses : ResponseJson(r)
     /\ UNCHANGED <<rlVars, bmVars, smVars, scVars, deVars, enVars, poVars>>
  \/ Materialize /\ UNCHANGED <<rlVars, bmVars, smVars, scVars, deVars, enVars, poVars>>
  \/ SearchSlice /\ UNCHANGED <<rlVars, bmVars, smVars, scVars, deVars, enVars, poVars>>
  \/ SearchEnrich /\ UNCHANGED <<rlVars, bmVars, smVars, scVars, deVars, enVars, poVars>>
  \/ SearchConvert /\ UNCHANGED <<rlVars, bmVars, smVars, scVars, deVars, enVars, poVars>>

SpecPipeline == InitPipeline /\ [][NextPipeline]_vars

\* One construction of a SubstackPost from a raw record; all else is idle.
InitPost ==
  /\ RLInit
  /\ max_requests = MaxCapacity
  /\ window = MaxWindow
  /\ BMInit
  /\ SMInit
  /\ SCQuiet
  /\ DEInit
  /\ ENInit
  /\ PLInit
  /\ POInit

NextPost ==
  \/ Construct /\ UNCHANGED <<rlVars, bmVars, smVars, scVars, deVars, enVars, plVars>>

SpecPost == InitPost /\ [][NextPost]_vars

\* ------------------------------------------------------------------ claims

\* The timestamps of queue q that lie in the window [t - window, t].
InWindow(q, t) == {i \in 1..Len(q) : t - window <= q[i] /\ q[i] <= t}

\* C1: with capacity >= 1, at every moment at most max_requests recorded
\* timestamps lie in the window [now - window, now], whatever acquire and
\* try_acquire calls were made. (The code breaks it: an acquire that runs when
\* the oldest timestamp is exactly `window` old neither evicts nor waits.)
C1_WindowHoldsAtMostCapacity ==
  max_requests >= 1 => Cardinality(InWindow(requests, now)) <= max_requests

\* C2: acquire never rejects: no acquire call ends with an error, for every
\* capacity >= 0. (The code breaks it: capacity 0 reads requests[0] of an
\* empty deque.)
C2_AcquireNeverRejects ==
  \A p \in Callers : ret[p] # "IndexError"

\* C3: try_acquire never blocks: a caller of try_acquire is never suspended,
\* also while another caller's acquire sleeps. (The code breaks it: the
\* sleeping acquire holds the lock try_acquire waits for.)
C3_TryAcquireNeverBlocks ==
  \A p \in Callers : op[p] = "try_acquire" => pc[p] # "lock_wait"

\* C4: try_acquire returns false exactly when the queue, once the timestamps
\* older than now - window are dropped, holds at least max_requests entries;
\* it appends exactly the current timestamp when it returns true and appends
\* nothing when it returns false.
C4_TryAcquireFalseIffSaturated ==
  \A i \in 1..Len(tryLog) :
    LET r == tryLog[i]
        kept == SelectSeq(r.pre, LAMBDA t : t >= r.at - window)
    IN /\ (r.result = FALSE) <=> (Len(kept) >= max_requests)
       /\ r.result => r.post = Append(kept, r.at)
       /\ ~r.result => r.post = kept

\* C4 witness: a try_acquire on a saturated window has returned false.
C4_Witness ==
  /\ max_requests >= 1
  /\ tryLog # <<>>
  /\ tryLog[1].result = FALSE
  /\ Len(tryLog[1].pre) >= max_requests
  /\ \E p \in Callers : ret[p] = "false"

\* C5: with capacity >= 1, the acquire call that follows a reset() is never
\* made to wait, whatever state the limiter was in at the reset. (The code
\* breaks it: the lock may be held by an acquire that is asleep.)
C5_AcquireAfterResetDoesNotWait ==
  max_requests >= 1 =>
    \A p \in firstAfter : pc[p] \notin {"lock_wait", "lock_granted", "sleeping"}

\* C6: the queue has a single writer at a time: while an acquire is suspended
\* in its wait, holding the lock, no operation changes the queue. (The code
\* breaks it: reset() takes no lock.)
C6_QueueUntouchedDuringWait ==
  [][(\E p \in Callers : pc[p] = "sleeping" /\ pc'[p] = "sleeping")
       => requests' = requests]_vars

\* C7: start is idempotent and serialized: at most one browser is launched
\* between two stops, and a start that finds the browser running (called
\* directly or from new_context / new_page) changes neither handle and
\* launches nothing.
C7_StartLaunchesOnce ==
  /\ [](launches <= 1 /\ Cardinality(liveBrowsers) <= 1)
  /\ [][\A u \in Users :
          (bm_browser # 0 /\ (StartCall(u) \/ StartResume(u)))
            => UNCHANGED <<bm_browser, bm_playwright, liveBrowsers, liveDrivers, handles>>]_vars

\* C7 witness: a start() call that found the browser running has returned.
C7_Witness ==
  /\ bm_browser \in liveBrowsers
  /\ launches = 1
  /\ Len(launchLog) = 1
  /\ \E u \in Users : \E v \in Users :
       /\ u # v
       /\ uExit[u] = "started" /\ bpc[u] = "idle"
       /\ uExit[v] = "started" /\ bpc[v] = "idle"

\* The ways a new_context / new_page scope ends once its context exists.
ScopeExits == {"normal", "block_raised", "idle_timeout", "page_failed", "route_failed"}

\* C8: when a new_context / new_page scope has exited (normally, by an
\* exception in the block, or by an exception while the page was created or
\* its route installed), its context and its page are closed.
C8_ScopeClosedOnEveryExit ==
  \A u \in Users :
    (bpc[u] = "idle" /\ uExit[u] \in ScopeExits)
      => (uCtx[u] = "closed" /\ uPage[u] # "open")

\* C8 witness: a new_page scope left by a failed route installation, with
\* its page created and now closed.
C8_Witness ==
  \E u \in Users :
    /\ bpc[u] = "idle"
    /\ bop[u] = "new_page"
    /\ uExit[u] = "route_failed"
    /\ uCtx[u] = "closed"
    /\ uPage[u] = "closed"

\* C9: no scoped block is running with, and no context is being created on,
\* a browser that stop() has torn down. (The code breaks it: new_context
\* holds no lock while the browser is in use.)
C9_NoUseAfterStop ==
  \A u \in Users :
    bpc[u] \in {"ctx_creating", "in_block"} => uBrowser[u] \in liveBrowsers

LaunchFailedInSearch ==
  /\ smPc \in {"opening", "closing", "caught"}
  /\ Len(launchLog) > smLogStart
  /\ launchLog[Len(launchLog)] = "failed"

C11_ConstantPageStopsWithinLimit ==
  scConstant => scroll_count <= max_no_change_iterations

\* C12: with a non-decreasing count probe, the scroll count stays what it was
\* when the probe first returned a value >= target_count (zero when the very
\* first probe did), and from then on the call is only on its way out: at the
\* loop's top check, at the final probe, or returned.
C12_StopsWhenTargetReached ==
  (scReached /\ scMonotone) =>
    /\ scroll_count = scReachedAt
    /\ scPc \in {"probe", "return", "done"}

\* The probe reached the target only after two scrolls, while content was
\* still arriving (the no-change counter is zero), and the call returned.
C12_Witness ==
  /\ scPc = "done"
  /\ scReached
  /\ scMonotone
  /\ scReachedAt >= 2
  /\ scroll_count = scReachedAt
  /\ no_change_iterations = 0
  /\ scRet >= target_count

\* C13: the call is bounded whatever the page does, timeout_ms capping the
\* waiting: once its sleeps add up to more than timeout_ms plus the
\* max_no_change_iterations + 1 scroll delays the no-change rule can take to
\* fire, the call has returned.
C13_ReturnsWithinTimeout ==
  scElapsed > timeout_ms + max_no_change_iterations + 1 => scPc = "done"

\* C14: extract_posts invokes the strategies in the order 1, 2, 3, 4; every
\* strategy invoked before another one returned zero records, so nothing runs
\* after a strategy that returned a record; and the chain does not stop
\* early: a call that returned without any record invoked all four.
C14_StrategiesInOrderUntilFirstRecord ==
  /\ \A i \in 1..Len(deLog) : deLog[i].strategy = i
  /\ \A i \in 1..Len(deLog) : i < Len(deLog) => deLog[i].count = 0
  /\ (dePc \in {"done", "typed"} /\ dePosts = <<>>) => Len(deLog) = 4

\* Strategies 1 and 2 found nothing, strategy 3 returned records, strategy 4
\* was not invoked.
C14_Witness ==
  /\ dePc = "done"
  /\ Len(deLog) = 3
  /\ deLog[3].count > 0

\* C15: a failure inside a strategy never leaves extract_posts: the failed
\* strategy counts as having produced zero records, the next strategy is
\* invoked after it, and when all four produced nothing the call returns the
\* empty list.
C15_StrategyFailureIsZeroRecords ==
  /\ dePc # "raised"
  /\ \A i \in 1..Len(deLog) : deLog[i].failed => deLog[i].count = 0
  /\ dePc \in {"done", "typed"} =>
       /\ \A i \in 1..Len(deLog) : (deLog[i].failed /\ i < 4) => Len(deLog) > i
       /\ (\A i \in 1..Len(deLog) : deLog[i].count = 0) => dePosts = <<>>

\* All four strategies failed and extract_posts returned the empty list.
C15_Witness ==
  /\ dePc = "done"
  /\ Len(deLog) = 4
  /\ \A i \in 1..4 : deLog[i].failed
  /\ dePosts = <<>>

\* No two records of the list carry the same id (records without id aside).
DistinctIds(ids) ==
  \A i, j \in 1..Len(ids) : (i < j /\ ids[i] # 0) => ids[i] # ids[j]

\* C16: the list extract_posts returns holds no two records with the same id.
C16_ReturnedListDeduplicated ==
  dePc = "done" => DistinctIds([i \in 1..Len(dePosts) |-> dePosts[i].id])

\* C17: when the records came from strategy 1, from the root element or from
\* the result elements, the typed SearchResult holds at most one Post per id.
C17_StrategyOneAtMostOnePostPerId ==
  (dePc = "typed" /\ deLog[Len(deLog)].strategy = 1) => DistinctIds(deTyped)

\* C18: the list enrich_posts returns is as long as its input, and position i
\* holds the record of input position i, with at most its content changed,
\* whatever the order in which the fetches completed.
C18_SameLengthSameOrder ==
  enPc = "returned" =>
    /\ Len(enResult) = Len(enInput)
    /\ \A i \in 1..Len(enInput) :
         /\ enResult[i].id = enInput[i].id
         /\ enResult[i].canonical_url = enInput[i].canonical_url

\* Three posts were enriched and the fetches completed in reverse order.
C18_Witness ==
  /\ enPc = "returned"
  /\ enDoneOrder = <<3, 2, 1>>
  /\ \A i \in 1..3 : enOutcome[i] = "page"

\* How a fetch ended is a failure: empty result or exception.
FetchFailed(i) == enOutcome[i] \in {"none", "raise"}

\* C19: a failed fetch of item i never fails the batch and leaves output item
\* i equal to input item i, and every output item is determined by its own
\* input item and its own fetch alone.
C19_FailureIsolated ==
  enPc = "returned" =>
    \A i \in 1..Len(enInput) :
      /\ i \in DOMAIN enResult
      /\ FetchFailed(i) => enResult[i] = enInput[i]
      /\ enOutcome[i] = "page" => enResult[i] = [enInput[i] EXCEPT !.body_html = "page"]
      /\ enOutcome[i] \in {"none", "nourl"} => enResult[i] = enInput[i]

\* One fetch raised, one came back empty, the third succeeded: the batch
\* returned, the failed items with what the search gave them.
C19_Witness ==
  /\ enPc = "returned"
  /\ Len(enInput) = 3
  /\ enOutcome[1] = "raise"
  /\ enOutcome[2] = "none"
  /\ enOutcome[3] = "page"
  /\ enInput[1].body_html = "search"
  /\ enInput[2].body_html = "search"
  /\ enResult[3].body_html = "page"

\* The fetch_one tasks that hold a slot: sleeping or visiting the post page.
InProgress == {i \in 1..Len(taskPc) : taskPc[i] \in {"delay", "visit"}}

\* C20: at most max_concurrent fetches (delay plus page visit) are in progress
\* at any moment, hence at most max_concurrent enrichment pages are open.
C20_AtMostMaxConcurrent ==
  /\ Cardinality(InProgress) <= max_concurrent
  /\ Cardinality({i \in 1..Len(taskPc) : taskPc[i] = "visit"}) <= max_concurrent

\* Two fetches fill both slots, both pages are open, and a third task waits.
C20_Witness ==
  /\ max_concurrent = 2
  /\ Cardinality({i \in 1..Len(taskPc) : taskPc[i] = "visit"}) = 2
  /\ \E i \in 1..Len(taskPc) : taskPc[i] = "waiting"

C22_SearchLeavesNothingOpen ==
  smPc \in {"search", "caught", "done"} =>
    \A u \in Users : uCtx[u] # "open" /\ uPage[u] # "open"

\* A search returned after its search page was closed and after an enrichment
\* fetch whose navigation raised on its open page.
C22_Witness ==
  /\ smPc \in {"search", "done"}
  /\ Len(smResults) >= 1
  /\ uPage[1] = "closed"
  /\ uExit[2] = "block_raised"
  /\ uPage[2] = "closed"
  /\ uCtx[2] = "closed"

\* C23: the result of a search with limit >= 0 has totalResults equal to the
\* number of its posts, and that number is at most limit, however many
\* records were captured or extracted.
C23_TotalIsLengthAtMostLimit ==
  plPc = "returned" =>
    LET result == ResultOf(1, plPosts) IN
    /\ result.total_results = Len(result.posts)
    /\ Len(result.posts) <= plLimit

\* More records were captured than the limit allows, and the result is full.
C23_Witness ==
  /\ plPc = "returned"
  /\ plLimit >= 1
  /\ Len(captured_posts) > plLimit
  /\ ~plExtracted
  /\ ResultOf(1, plPosts).total_results = plLimit

\* C24: every Post of the result of a search carries the keyword of that
\* search (keyword 1), whatever its record's origin, however it was parsed,
\* and whatever keyword the raw record carried.
C24_EveryPostCarriesTheKeyword ==
  plPc = "returned" => \A i \in 1..Len(plPosts) : plPosts[i].keyword = 1

IsPrefix(a, b) == Len(a) <= Len(b) /\ \A i \in 1..Len(a) : a[i] = b[i]

\* C25: Materialize awaits the extraction chain exactly when the captured
\* buffer is empty at that step; when it is not empty no strategy runs and
\* the records kept for the result are a prefix of the captured records.
C25_MaterializePrefersCaptured ==
  /\ [][(plPc = "listening" /\ plPc' = "stamped") =>
          (plExtracted' <=> captured_posts = <<>>)]_vars
  /\ [](plPc \in {"stamped", "sliced"} /\ ~plExtracted =>
          IsPrefix(raw_posts, captured_posts))

\* The buffer held more records than the limit: a proper, non-empty prefix of
\* it is kept and the extraction chain did not run.
C25_Witness ==
  /\ plPc = "sliced"
  /\ ~plExtracted
  /\ raw_posts # <<>>
  /\ Len(raw_posts) < Len(captured_posts)
  /\ IsPrefix(raw_posts, captured_posts)

\* Record i of raw_posts has a Post: the strict one or the minimal one.
Survives(i) ==
  StrictParse(raw_posts[i]).ok \/ CreateMinimalPost(raw_posts[i], 1).ok

\* C26: the conversion gives one Post for every record that parses strictly
\* (the strict Post) or, failing that, minimally (the minimal Post), none for
\* a record that fails both, and the Posts are in the order of their records.
C26_ConversionKeepsSurvivorsInOrder ==
  plPc = "returned" =>
    LET kept == SelectSeq([i \in 1..Len(raw_posts) |-> i], Survives) IN
    /\ Len(plPosts) = Len(kept)
    /\ \A j \in 1..Len(kept) :
         /\ plPosts[j].ok
         /\ plPosts[j].id = raw_posts[kept[j]].id
         /\ plPosts[j].src = raw_posts[kept[j]].src
         /\ plPosts[j].how = IF StrictParse(raw_posts[kept[j]]).ok
                             THEN "strict" ELSE "minimal"

\* Of two records the first failed both attempts and was dropped, the second
\* failed the strict one and is in the result as a minimal Post.
C26_Witness ==
  /\ plPc = "returned"
  /\ Len(raw_posts) = 2
  /\ ~Survives(1)
  /\ ~StrictParse(raw_posts[2]).ok
  /\ Len(plPosts) = 1
  /\ plPosts[1].how = "minimal"
  /\ plPosts[1].id = raw_posts[2].id

\* C27: the minimal reconstruction succeeds for every raw record, whichever
\* of the eight fields it reads are missing or hold a value of the wrong
\* type: each such field gets its default.
C27_MinimalReconstructionSucceeds ==
  plPc \in {"enriched", "returned"} =>
    \A i \in 1..Len(raw_posts) : CreateMinimalPost(raw_posts[i], 1).ok

\* C28: search_multiple returns one result per keyword in input order, result
\* i for keyword i; the result of a search that raised is empty; a result
\* once appended stays as it is while the remaining keywords are searched.
C28_OneResultPerKeywordInOrder ==
  /\ [](smPc = "done" =>
          /\ Len(smResults) = NumKeywords
          /\ \A i \in 1..NumKeywords :
               /\ smResults[i].keyword = i
               /\ smResults[i].error # "none" => smResults[i].total_results = 0)
  /\ [][smPc # "idle" =>
          /\ Len(smResults') >= Len(smResults)
          /\ \A i \in 1..Len(smResults) : smResults'[i] = smResults[i]]_vars

\* The search of the first keyword raised inside its block and has an empty
\* result; the search of the second keyword ran and returned posts.
C28_Witness ==
  /\ smPc = "done"
  /\ smResults[1].error = "block_raised"
  /\ smResults[1].total_results = 0
  /\ smResults[2].error = "none"
  /\ smResults[2].total_results >= 1
  /\ smResults[2].keyword = 2

\* The place of response r among the responses that arrived.
ArrivalIndex(r) == CHOOSE k \in 1..Len(arrivals) : arrivals[k] = r

\* C29: the captured buffer is in response-arrival order: a record of a
\* response that arrived earlier precedes every record of a response that
\* arrived later, however the handlers interleave.
C29_BufferInArrivalOrder ==
  \A i, j \in 1..Len(captured_posts) :
    i < j => ArrivalIndex(captured_posts[i].src) <= ArrivalIndex(captured_posts[j].src)

\* C30: when nothing was captured and the extraction chain returns n <= limit
\* records with distinct ids, the result has totalResults = n and every Post
\* carries the keyword of the search, with or without enrichment and however
\* the enrichment of each post ends.
C30_ExtractedRecordsAllReturned ==
  (/\ plPc = "returned"
   /\ plExtracted
   /\ plFound <= plLimit
   /\ \A i, j \in 1..Len(raw_posts) : raw_posts[i].id = raw_posts[j].id => i = j) =>
    /\ ResultOf(1, plPosts).total_results = plFound
    /\ \A i \in 1..Len(plPosts) : plPosts[i].keyword = 1

\* The record has the six fields id, publication_id, title, slug,
\* canonical_url and post_date, all valid, and neither type nor audience.
MinimalValid(raw_post) ==
  /\ \A f \in RequiredFields : raw_post.fields[f] = "good"
  /\ raw_post.fields["type"] = "missing"
  /\ raw_post.fields["audience"] = "missing"

\* C31 as stated: constructing a Post from a record that carries only the six
\* fields succeeds, with type "newsletter" and audience "everyone".
C31_SixFieldsSuffice ==
  (poPost.how = "strict" /\ MinimalValid(poRaw)) =>
    /\ poPost.ok
    /\ poPost.type = "newsletter"
    /\ poPost.audience = "everyone"

\* C31 as amended: constructing a Post from a record that carries the six
\* fields and a keyword succeeds, with type "newsletter" and audience
\* "everyone"; without the keyword the construction fails.
C31_SixFieldsAndKeywordSuffice ==
  (poPost.how = "strict" /\ MinimalValid(poRaw)) =>
    IF poRaw.keyword # 0
    THEN /\ poPost.ok
         /\ poPost.type = "newsletter"
         /\ poPost.audience = "everyone"
    ELSE ~poPost.ok

\* A Post was built from the six fields and a keyword.
C31_Witness ==
  /\ poPost.how = "strict"
  /\ MinimalValid(poRaw)
  /\ poRaw.keyword = 1
  /\ poPost.ok
  /\ poPost.audience = "everyone"

\* The searches that search_multiple has begun.
SearchesBegun == IF smPc \in {"idle", "search", "done"} THEN smIdx - 1 ELSE smIdx

\* C32: in a search call the limiter is acquired once, and before the call
\* opens a context or a page; enrichment runs only after the context of the
\* search page is closed; and it fetches records of the truncated list only,
\* at most limit of them.
C32_StepsInOrder ==
  /\ smPc # "idle" => calls = SearchesBegun
  /\ smPc \in {"search", "acquiring", "context"} =>
       \A u \in Users : uCtx[u] # "open" /\ uPage[u] # "open"
  /\ smPc \in {"enrich", "fetching"} =>
       /\ uCtx[1] = "closed"
       /\ uPage[1] # "open"
       /\ smRaw <= smLimit
       /\ smFetch <= smRaw

\* The second of two permalinks is being fetched, on its own page, after the
\* search's context was closed; the limiter was acquired once.
C32_Witness ==
  /\ smPc = "fetching"
  /\ smIdx = 1
  /\ calls = 1
  /\ smRaw = 2
  /\ smLimit = 2
  /\ smFetch = 0
  /\ uPage[2] = "open"
  /\ uCtx[1] = "closed"

\* C33: an iteration adds to the no-progress counter only when BOTH the height
\* and the count it measured equal those of the iteration before (last_height
\* and last_count, which before the first iteration are the initial values);
\* an iteration in which either differs sets the counter to zero and goes on;
\* and the loop is left short of the target only with the counter at
\* max_no_change_iterations.
C33_NoProgressNeedsBothUnchanged ==
  /\ [][(scPc = "count" /\ scPc' # "count") =>
          LET both == new_height = last_height /\ pgCount = last_count IN
          /\ both => no_change_iterations' = no_change_iterations + 1
          /\ ~both => (no_change_iterations' = 0 /\ scPc' = "probe")
          /\ scPc' = "return" => no_change_iterations' >= max_no_change_iterations]_vars
  /\ []((scPc = "return" /\ scLastProbe < target_count) =>
          no_change_iterations >= max_no_change_iterations)

\* The page changed during the call, the counter went back to zero, and the
\* loop was then left short of the target after two unchanged iterations.
C33_Witness ==
  /\ scPc = "return"
  /\ scLastProbe < target_count
  /\ ~scConstant
  /\ max_no_change_iterations = 2
  /\ no_change_iterations = 2
  /\ scroll_count >= 4

\* C34: a fetch_post_content whose navigation reached DOM-ready and whose
\* wait for network idle timed out still extracts and returns the content.
C34_IdleTimeoutStillExtracts ==
  \A u \in Users :
    (bop[u] = "new_page" /\ bpc[u] = "idle" /\ uExit[u] = "idle_timeout") =>
      FetchPostContent(uExit[u]) = "content"

\* C35: the DOM strategy skips a card when and only when the card has neither
\* a title nor a permalink: card i has a record (id i) exactly when it has a
\* title or a permalink.
C35_CardSkippedOnlyWithoutBoth ==
  (dePc \in {"stamp", "done", "typed"} /\ Len(deLog) = 4 /\ ~deLog[4].failed) =>
    \A i \in 1..Len(deCards) :
      (deCards[i].title \/ deCards[i].url) <=>
        (\E j \in 1..Len(dePosts) : dePosts[j].id = i)

\* C36: after any sequence of acquire, try_acquire and reset calls by any
\* number of concurrent callers, the timestamp queue never holds more than
\* max_requests entries.
C36_QueueNeverExceedsCapacity ==
  Len(requests) <= max_requests

\* C37: every raw record that reaches truncation, enrichment and typed
\* conversion of a search has been stamped (the stamping loop writes the
\* call's keyword, 1, and scrapedAt together; no raw record arrives with
\* keyword 1), for every interleaving of the response handlers with search.
C37_RecordsReachingSliceAreStamped ==
  plPc \in {"sliced", "enriched"} =>
    \A i \in 1..Len(raw_posts) : raw_posts[i].keyword = 1

\* C39: enrichment never erases data: a body_html that is populated in the
\* input record is still populated in the record enrich_posts returns,
\* whatever the post page's embedded data contains or omits.
C39_EnrichmentKeepsPopulatedFields ==
  enPc = "returned" =>
    \A i \in 1..Len(enInput) :
      enInput[i].body_html # "none" => enResult[i].body_html # "none"

\* C38: enrich_posts eventually returns for every input list and every
\* max_concurrent >= 1: the slots taken are exactly those of the fetches under
\* way, so every path of a fetch gives its slot back, and a call that awaits
\* its tasks does return.
C38_EnrichEventuallyReturns ==
  /\ [](enPc = "gather" =>
          enValue + Cardinality({i \in 1..Len(taskPc) : taskPc[i] \in {"delay", "visit"}})
            = max_concurrent)
  /\ (enPc = "gather" ~> enPc = "returned")

\* A call with one slot returned after fetches that ended on each path: no
\* permalink, a failed fetch, a successful fetch.
C38_Witness ==
  /\ enPc = "returned"
  /\ max_concurrent = 1
  /\ {"nourl", "none", "page"} \subseteq {enOutcome[i] : i \in 1..Len(enOutcome)}

\* C40: no driver handle is leaked: when stop() has returned (both fields are
\* None and the lock is free), after any sequence of start calls, failed
\* launches included, every driver and every browser process that a start
\* created has been stopped.
C40_NothingAliveAfterStop ==
  (bm_browser = 0 /\ bm_playwright = 0 /\ ~bm_locked) =>
    (liveDrivers = {} /\ liveBrowsers = {})

====
